---- MODULE Spec2Model ----
(***************************************************************************)
(* Model of the structured-response extraction of the research service    *)
(* (src/src/services/research-service.ts), specification Spec, and of the  *)
(* application run and the delivery (research-email.tsx lines 470-725,     *)
(* email-service.ts), specification AppSpec.                               *)
(*                                                                         *)
(* A text is a sequence of glyphs.  A glyph is an indivisible piece of     *)
(* text: one structural character, one run of white space, one word, one   *)
(* URL, or one JSON key with its colon.  Every operation of the code on    *)
(* strings (trim, the two regular expressions, indexOf, lastIndexOf,       *)
(* slice, JSON.parse) is computed on glyph sequences the way the code      *)
(* computes it on characters.                                              *)
(***************************************************************************)
EXTENDS Integers, Sequences, FiniteSets, TLC

\* Number of chunks of text the model reply is composed of.
MaxChunks == 2

-----------------------------------------------------------------------------
(* Glyphs *)

WS     == "ws"        \* a run of white space (matches \s)
FENCE  == "fence"     \* three backticks
JSONTAG == "json"     \* the word json
LBRACE == "{"
RBRACE == "}"
LBRACK == "["
RBRACK == "]"
COMMA  == ","
QUOTE  == "\""
RPAREN == ")"
PROSE  == "prose"     \* a word without white space, braces, quotes or URLs

U1 == "https://example.com/doc"
U2 == "https://example.com/tool"
U3 == "http://example.org/c"
U4 == "https://example.com"        \* scheme and host only, no path

LT   == "<"
GT   == ">"
AMP  == "&"
APOS == "'"

\* Glyphs whose text begins with http:// or https:// followed by a host.
UrlGlyphs == {U1, U2, U3, U4}

\* URL glyphs that end inside the host: text that follows them continues
\* the host name.
HostOnlyGlyphs == {U4}

\* Characters a host name cannot hold.
ForbiddenHostGlyphs == {LT, GT}

\* A JSON key together with its colon, e.g. "title": .
KeyGlyphs == {"executiveSummary:", "keyFindings:", "recommendedResources:",
              "codeExamples:", "sources:", "title:", "description:",
              "category:", "importance:", "actionable:", "name:", "url:",
              "type:", "language:", "code:", "credibility:", "relevance:"}

\* JSON literals outside strings.
BoolGlyphs == {"true", "false"}
LiteralGlyphs == BoolGlyphs \cup {"null", "7"}

-----------------------------------------------------------------------------
(* String primitives of the language runtime, on glyph sequences.  Indices *)
(* are 1-based; 0 stands for JavaScript's -1 (not found).                  *)

MinOf(S) == CHOOSE x \in S : \A y \in S : x <= y
MaxOf(S) == 0 - MinOf({0 - x : x \in S})

\* String.prototype.indexOf
IndexOf(s, g) ==
  LET hits == {i \in 1..Len(s) : s[i] = g}
  IN IF hits = {} THEN 0 ELSE MinOf(hits)

\* String.prototype.lastIndexOf
LastIndexOf(s, g) ==
  LET hits == {i \in 1..Len(s) : s[i] = g}
  IN IF hits = {} THEN 0 ELSE MaxOf(hits)

\* String.prototype.trim
Trim(s) ==
  LET keep == {i \in 1..Len(s) : s[i] # WS}
  IN IF keep = {} THEN <<>> ELSE SubSeq(s, MinOf(keep), MaxOf(keep))

\* s.slice(from, to + 1) with 1-based inclusive bounds
Slice(s, from, to) == SubSeq(s, from, to)

\* t occurs in s as a contiguous run of glyphs
OccursIn(t, s) ==
  \E i \in 1..(Len(s) - Len(t) + 1) : SubSeq(s, i, i + Len(t) - 1) = t

-----------------------------------------------------------------------------
(* Fence extraction: jsonContent.match(/```(?:json)?\s*(\{[\s\S]*\})\s*```/) *)

\* Index of the first glyph at or after i that is not white space
\* (Len(s) + 1 when there is none): where a greedy \s* stops.
SkipWs(s, i) ==
  LET stop == {k \in i..Len(s) : s[k] # WS}
  IN IF stop = {} THEN Len(s) + 1 ELSE MinOf(stop)

\* A pattern whose json tag is not optional.
FenceOpenAtBugTagRequired(s, i) ==
  IF s[i] # FENCE \/ i + 1 > Len(s) \/ s[i + 1] # JSONTAG THEN 0
  ELSE LET p == SkipWs(s, i + 2)
       IN IF p <= Len(s) /\ s[p] = LBRACE THEN p ELSE 0

\* Position of the `{` that opens the capture group of a match starting at
\* the fence at i, or 0: fence, optional json tag, white space, `{`.
FenceOpenAt(s, i) ==
  IF s[i] # FENCE THEN 0
  ELSE LET a == IF i + 1 <= Len(s) /\ s[i + 1] = JSONTAG THEN i + 2 ELSE i + 1
           p == SkipWs(s, a)
       IN IF p <= Len(s) /\ s[p] = LBRACE THEN p ELSE 0

\* Positions q > p of a `}` that white space and then a fence follow:
\* where the capture group may end.
FenceCloseSet(s, p) ==
  {q \in (p + 1)..Len(s) :
     /\ s[q] = RBRACE
     /\ LET r == SkipWs(s, q + 1) IN r <= Len(s) /\ s[r] = FENCE}

\* The greedy `[\s\S]*` gives the capture group its longest extent.
FenceClose(s, p) == MaxOf(FenceCloseSet(s, p))

\* jsonMatch: [found, group]: the leftmost match and its capture group [1].
FenceMatch(s) ==
  LET starts == {i \in 1..Len(s) :
                   /\ FenceOpenAt(s, i) # 0
                   /\ FenceCloseSet(s, FenceOpenAt(s, i)) # {}}
  IN IF starts = {} THEN [found |-> FALSE, group |-> <<>>]
     ELSE LET p == FenceOpenAt(s, MinOf(starts))
          IN [found |-> TRUE, group |-> Slice(s, p, FenceClose(s, p))]

(* Boundary extraction: first `{` to last `}` of jsonContent, inclusive,   *)
(* when both exist and the last `}` is after the first `{`.                *)
BoundarySliceBugExclusive(jsonContent) ==
  LET jsonStart == IndexOf(jsonContent, LBRACE)
      jsonEnd   == LastIndexOf(jsonContent, RBRACE)
  IN IF jsonStart # 0 /\ jsonEnd # 0 /\ jsonEnd > jsonStart
       THEN Slice(jsonContent, jsonStart, jsonEnd - 1)
       ELSE jsonContent

BoundarySlice(jsonContent) ==
  LET jsonStart == IndexOf(jsonContent, LBRACE)
      jsonEnd   == LastIndexOf(jsonContent, RBRACE)
  IN IF jsonStart # 0 /\ jsonEnd # 0 /\ jsonEnd > jsonStart
       THEN Slice(jsonContent, jsonStart, jsonEnd)
       ELSE jsonContent

\* The text handed to JSON.parse (lines 294-308).
JsonCandidate(rawContent) ==
  LET trimmed   == Trim(rawContent)
      jsonMatch == FenceMatch(trimmed)
  IN BoundarySlice(IF jsonMatch.found THEN jsonMatch.group ELSE trimmed)

-----------------------------------------------------------------------------
(* JSON.parse.  A JSON value is a pair of its type and its payload:        *)
(*   <<"string", glyphs>>   <<"number", g>>   <<"boolean", g>>             *)
(*   <<"null", g>>   <<"array", values>>   <<"object", key :> value>>      *)
(* White space between lexemes is skipped; a string runs from a quote to   *)
(* the next quote and may hold any glyph (WS inside a string is a space).  *)

\* Index of the next lexeme at or after i.
NextLexeme(s, i) == IF i <= Len(s) /\ s[i] = WS THEN SkipWs(s, i) ELSE i

\* Index of the first quote after i, or 0.
ClosingQuote(s, i) ==
  LET hits == {k \in (i + 1)..Len(s) : s[k] = QUOTE}
  IN IF hits = {} THEN 0 ELSE MinOf(hits)

ParseFail == [ok |-> FALSE, val |-> <<"null", "null">>, next |-> 0]

LiteralValue(g) ==
  IF g \in BoolGlyphs THEN <<"boolean", g>>
  ELSE IF g = "null" THEN <<"null", g>>
  ELSE <<"number", g>>

\* Recursive descent from index at: [ok, val, next], next the index after
\* the value.
RECURSIVE ParseValue(_, _), ParseMembers(_, _, _), ParseElements(_, _, _)
ParseValue(s, at) ==
  LET i == NextLexeme(s, at)
  IN IF i > Len(s) THEN ParseFail
     ELSE IF s[i] = QUOTE
       THEN LET close == ClosingQuote(s, i)
            IN IF close = 0 THEN ParseFail
               ELSE [ok |-> TRUE, val |-> <<"string", SubSeq(s, i + 1, close - 1)>>,
                     next |-> close + 1]
     ELSE IF s[i] \in LiteralGlyphs
       THEN [ok |-> TRUE, val |-> LiteralValue(s[i]), next |-> i + 1]
     ELSE IF s[i] = LBRACE
       THEN LET j == NextLexeme(s, i + 1)
            IN IF j <= Len(s) /\ s[j] = RBRACE
                 THEN [ok |-> TRUE, val |-> <<"object", <<>>>>, next |-> j + 1]
                 ELSE ParseMembers(s, j, <<>>)
     ELSE IF s[i] = LBRACK
       THEN LET j == NextLexeme(s, i + 1)
            IN IF j <= Len(s) /\ s[j] = RBRACK
                 THEN [ok |-> TRUE, val |-> <<"array", <<>>>>, next |-> j + 1]
                 ELSE ParseElements(s, j, <<>>)
     ELSE ParseFail

\* key value ("," key value)* "}" ; a repeated key keeps its last value.
ParseMembers(s, at, acc) ==
  LET i == NextLexeme(s, at)
  IN IF i > Len(s) \/ s[i] \notin KeyGlyphs THEN ParseFail
     ELSE LET v == ParseValue(s, i + 1)
              j == NextLexeme(s, v.next)
          IN IF ~v.ok \/ j > Len(s) THEN ParseFail
             ELSE IF s[j] = RBRACE
               THEN [ok |-> TRUE, val |-> <<"object", (s[i] :> v.val) @@ acc>>,
                     next |-> j + 1]
             ELSE IF s[j] = COMMA
               THEN ParseMembers(s, j + 1, (s[i] :> v.val) @@ acc)
             ELSE ParseFail

\* value ("," value)* "]"
ParseElements(s, at, acc) ==
  LET v == ParseValue(s, at)
      j == NextLexeme(s, v.next)
  IN IF ~v.ok \/ j > Len(s) THEN ParseFail
     ELSE IF s[j] = RBRACK
       THEN [ok |-> TRUE, val |-> <<"array", Append(acc, v.val)>>, next |-> j + 1]
     ELSE IF s[j] = COMMA
       THEN ParseElements(s, j + 1, Append(acc, v.val))
     ELSE ParseFail

\* JSON.parse(text): [ok, val]; ok is FALSE where JSON.parse throws a
\* SyntaxError (no value, a malformed value, or text after the value).
JsonParse(text) ==
  LET v == ParseValue(text, 1)
  IN IF v.ok /\ NextLexeme(text, v.next) > Len(text)
       THEN [ok |-> TRUE, val |-> v.val]
       ELSE [ok |-> FALSE, val |-> ParseFail.val]

-----------------------------------------------------------------------------
(* StructuredResearchSchema.parse: the research record schema.  A record   *)
(* is [executiveSummary, keyFindings, recommendedResources, codeExamples,  *)
(* sources]; free text is kept as glyphs, an enum value as its word.       *)

Categories    == {"tool", "framework", "technique", "update", "trend"}
Levels        == {"high", "medium", "low"}
ResourceTypes == {"documentation", "tutorial", "tool", "article", "video", "repository"}
Credibilities == {"official", "community", "blog", "news"}

IsObject(v) == v[1] = "object"
IsArray(v)  == v[1] = "array"
HasString(o, k)  == k \in DOMAIN o /\ o[k][1] = "string"
HasBoolean(o, k) == k \in DOMAIN o /\ o[k][1] = "boolean"
HasEnum(o, k, allowed) ==
  HasString(o, k) /\ Len(o[k][2]) = 1 /\ o[k][2][1] \in allowed
HasArray(o, k) == k \in DOMAIN o /\ IsArray(o[k])

\* A valid absolute HTTP/HTTPS URL: scheme and host, no white space, and
\* a host name free of forbidden characters.
IsValidUrl(glyphs) ==
  /\ Len(glyphs) >= 1
  /\ glyphs[1] \in UrlGlyphs
  /\ \A i \in 1..Len(glyphs) : glyphs[i] # WS
  /\ glyphs[1] \in HostOnlyGlyphs =>
       \A i \in 2..Len(glyphs) : glyphs[i] \notin ForbiddenHostGlyphs

FindingShape(v) ==
  /\ IsObject(v)
  /\ HasString(v[2], "title:") /\ HasString(v[2], "description:")
  /\ HasEnum(v[2], "category:", Categories)
  /\ HasEnum(v[2], "importance:", Levels)
  /\ HasBoolean(v[2], "actionable:")

ResourceShape(v) ==
  /\ IsObject(v)
  /\ HasString(v[2], "name:") /\ HasString(v[2], "url:")
  /\ HasString(v[2], "description:")
  /\ HasEnum(v[2], "type:", ResourceTypes)

CodeExampleShape(v) ==
  /\ IsObject(v)
  /\ HasString(v[2], "title:") /\ HasString(v[2], "language:")
  /\ HasString(v[2], "code:") /\ HasString(v[2], "description:")

SourceShape(v) ==
  /\ IsObject(v)
  /\ HasString(v[2], "title:") /\ HasString(v[2], "url:")
  /\ HasEnum(v[2], "credibility:", Credibilities)
  /\ HasEnum(v[2], "relevance:", Levels)

AllItems(arr, Shape(_)) == \A i \in 1..Len(arr[2]) : Shape(arr[2][i])

\* Wrong type, missing required field or enum value outside the allowed set.
SchemaShape(v) ==
  /\ IsObject(v)
  /\ HasString(v[2], "executiveSummary:")
  /\ HasArray(v[2], "keyFindings:")
  /\ HasArray(v[2], "recommendedResources:")
  /\ HasArray(v[2], "codeExamples:")
  /\ HasArray(v[2], "sources:")
  /\ AllItems(v[2]["keyFindings:"], FindingShape)
  /\ AllItems(v[2]["recommendedResources:"], ResourceShape)
  /\ AllItems(v[2]["codeExamples:"], CodeExampleShape)
  /\ AllItems(v[2]["sources:"], SourceShape)

ToFinding(v) ==
  [title       |-> v[2]["title:"][2],
   description |-> v[2]["description:"][2],
   category    |-> v[2]["category:"][2][1],
   importance  |-> v[2]["importance:"][2][1],
   actionable  |-> v[2]["actionable:"][2] = "true"]

ToResource(v) ==
  [name        |-> v[2]["name:"][2],
   url         |-> v[2]["url:"][2],
   description |-> v[2]["description:"][2],
   type        |-> v[2]["type:"][2][1]]

ToCodeExample(v) ==
  [title       |-> v[2]["title:"][2],
   language    |-> v[2]["language:"][2],
   code        |-> v[2]["code:"][2],
   description |-> v[2]["description:"][2]]

ToSource(v) ==
  [title       |-> v[2]["title:"][2],
   url         |-> v[2]["url:"][2],
   credibility |-> v[2]["credibility:"][2][1],
   relevance   |-> v[2]["relevance:"][2][1]]

HasValidUrl(item) == IsValidUrl(item.url)

MapSeq(s, F(_)) == [i \in 1..Len(s) |-> F(s[i])]

\* An item whose URL is not a valid absolute HTTP/HTTPS URL is dropped from
\* its list; the record survives.
UrlItems(items) == SelectSeq(items, HasValidUrl)

\* [ok, value]: ok is FALSE where the schema's parse throws a ZodError;
\* value is <<record>>, or <<>> when there is none.
SchemaParseBugStrictUrl(v) ==
  IF ~SchemaShape(v)
     \/ \E i \in 1..Len(v[2]["recommendedResources:"][2]) :
          ~HasValidUrl(ToResource(v[2]["recommendedResources:"][2][i]))
     \/ \E j \in 1..Len(v[2]["sources:"][2]) :
          ~HasValidUrl(ToSource(v[2]["sources:"][2][j]))
    THEN [ok |-> FALSE, value |-> <<>>]
    ELSE [ok |-> TRUE,
          value |-> << [executiveSummary |-> v[2]["executiveSummary:"][2],
                        keyFindings |-> MapSeq(v[2]["keyFindings:"][2], ToFinding),
                        recommendedResources |->
                          MapSeq(v[2]["recommendedResources:"][2], ToResource),
                        codeExamples |-> MapSeq(v[2]["codeExamples:"][2], ToCodeExample),
                        sources |-> MapSeq(v[2]["sources:"][2], ToSource)] >>]

SchemaParse(v) ==
  IF ~SchemaShape(v) THEN [ok |-> FALSE, value |-> <<>>]
  ELSE [ok |-> TRUE,
        value |-> << [executiveSummary |-> v[2]["executiveSummary:"][2],
                      keyFindings |-> MapSeq(v[2]["keyFindings:"][2], ToFinding),
                      recommendedResources |->
                        UrlItems(MapSeq(v[2]["recommendedResources:"][2], ToResource)),
                      codeExamples |-> MapSeq(v[2]["codeExamples:"][2], ToCodeExample),
                      sources |-> UrlItems(MapSeq(v[2]["sources:"][2], ToSource))] >>]

-----------------------------------------------------------------------------
(* createFallbackStructuredData (lines 331-365)                            *)

\* Last glyph of the match of [^\s)]+ that starts at the URL glyph at i.
UrlEnd(s, i) ==
  LET stop == {k \in (i + 1)..Len(s) : s[k] \in {WS, RPAREN}}
  IN IF stop = {} THEN Len(s) ELSE MinOf(stop) - 1

\* The matches that start at or after i: the scan resumes after each match.
RECURSIVE UrlScan(_, _)
UrlScan(s, i) ==
  LET starts == {k \in i..Len(s) : s[k] \in UrlGlyphs}
  IN IF starts = {} THEN <<>>
     ELSE LET from == MinOf(starts)
          IN <<SubSeq(s, from, UrlEnd(s, from))>> \o UrlScan(s, UrlEnd(s, from) + 1)

\* rawContent.match(/https?:\/\/[^\s)]+/g) || [] : every match, left to
\* right, none overlapping.
UrlMatchesBugNoGlobal(rawContent) ==
  LET all == UrlScan(rawContent, 1)
  IN IF all = <<>> THEN <<>> ELSE <<Head(all)>>

UrlMatches(rawContent) == UrlScan(rawContent, 1)

\* Array.prototype.slice(0, n)
SliceFirst(arr, n) == SubSeq(arr, 1, IF Len(arr) < n THEN Len(arr) ELSE n)

\* The decimal text of index + 1.
Ordinal == <<"1", "2", "3", "4", "5">>

ParseFailedSummary ==
  <<"Research data was received but could not be parsed into the expected structure. Please review the raw content.">>

ParsingErrorFinding ==
  [title       |-> <<"Parsing Error">>,
   description |-> <<"The research response could not be structured automatically. Manual review may be required.">>,
   category    |-> "update",
   importance  |-> "medium",
   actionable  |-> FALSE]

\* urls.slice(0, 3).map(...)
FallbackResources(urls) ==
  LET first == SliceFirst(urls, 3)
  IN [i \in 1..Len(first) |->
        [name        |-> <<"Resource", Ordinal[i]>>,
         url         |-> first[i],
         description |-> <<"Extracted from research content">>,
         type        |-> "article"]]

RECURSIVE Dedup(_)
Dedup(urls) ==
  IF urls = <<>> THEN <<>>
  ELSE LET front == Dedup(SubSeq(urls, 1, Len(urls) - 1))
           last  == urls[Len(urls)]
       IN IF \E i \in 1..Len(front) : front[i] = last THEN front
          ELSE Append(front, last)

FallbackSourcesBugDedup(urls) ==
  LET first == SliceFirst(Dedup(urls), 5)
  IN [i \in 1..Len(first) |->
        [title       |-> <<"Source", Ordinal[i]>>,
         url         |-> first[i],
         credibility |-> "community",
         relevance   |-> "medium"]]

\* urls.slice(0, 5).map(...)
FallbackSources(urls) ==
  LET first == SliceFirst(urls, 5)
  IN [i \in 1..Len(first) |->
        [title       |-> <<"Source", Ordinal[i]>>,
         url         |-> first[i],
         credibility |-> "community",
         relevance   |-> "medium"]]

createFallbackBugNoFinding(rawContent) ==
  LET urls == UrlMatches(rawContent)
  IN [executiveSummary     |-> ParseFailedSummary,
      keyFindings          |-> <<>>,
      recommendedResources |-> FallbackResources(urls),
      codeExamples         |-> <<>>,
      sources              |-> FallbackSources(urls)]

createFallbackStructuredData(rawContent) ==
  LET urls == UrlMatches(rawContent)
  IN [executiveSummary     |-> ParseFailedSummary,
      keyFindings          |-> <<ParsingErrorFinding>>,
      recommendedResources |-> FallbackResources(urls),
      codeExamples         |-> <<>>,
      sources              |-> FallbackSources(urls)]

-----------------------------------------------------------------------------
(* parseStructuredResponse (lines 291-324)                                 *)

\* The try block: [threw, value, parsed].  threw names the exception that
\* leaves the block ("none" when it returns); value is <<validatedData>>;
\* parsed is what JSON.parse returned, when it returned.
TryBlock(rawContent) ==
  LET parsedData == JsonParse(JsonCandidate(rawContent))
  IN IF ~parsedData.ok
       THEN [threw |-> "SyntaxError", value |-> <<>>, parsed |-> <<>>]
       ELSE LET validatedData == SchemaParse(parsedData.val)
            IN IF ~validatedData.ok
                 THEN [threw |-> "ZodError", value |-> <<>>,
                       parsed |-> <<parsedData.val>>]
                 ELSE [threw |-> "none", value |-> validatedData.value,
                       parsed |-> <<parsedData.val>>]

\* A catch that handles syntax errors only.
parseStructuredResponseBugRethrow(rawContent) ==
  LET t == TryBlock(rawContent)
  IN IF t.threw = "none"
       THEN [raised |-> FALSE, value |-> t.value, path |-> "parsed", caught |-> "none"]
     ELSE IF t.threw = "ZodError"
       THEN [raised |-> TRUE, value |-> <<>>, path |-> "none", caught |-> "none"]
     ELSE [raised |-> FALSE, value |-> <<createFallbackStructuredData(rawContent)>>,
           path |-> "fallback", caught |-> t.threw]

\* A second attempt over the full text after a failed first attempt.
parseStructuredResponseBugRetry(rawContent) ==
  LET t == TryBlock(rawContent)
      again == JsonParse(BoundarySlice(Trim(rawContent)))
      valid == IF again.ok THEN SchemaParse(again.val)
               ELSE [ok |-> FALSE, value |-> <<>>]
  IN IF t.threw = "none"
       THEN [raised |-> FALSE, value |-> t.value, path |-> "parsed", caught |-> "none"]
     ELSE IF valid.ok
       THEN [raised |-> FALSE, value |-> valid.value, path |-> "parsed", caught |-> "none"]
     ELSE [raised |-> FALSE, value |-> <<createFallbackStructuredData(rawContent)>>,
           path |-> "fallback", caught |-> t.threw]

\* A catch that salvages the summary of a parse that failed validation.
parseStructuredResponseBugSalvage(rawContent) ==
  LET t == TryBlock(rawContent)
      fb == createFallbackStructuredData(rawContent)
      salvage == /\ t.threw = "ZodError"
                 /\ IsObject(t.parsed[1])
                 /\ HasString(t.parsed[1][2], "executiveSummary:")
  IN IF t.threw = "none"
       THEN [raised |-> FALSE, value |-> t.value, path |-> "parsed", caught |-> "none"]
     ELSE [raised |-> FALSE,
           value |-> << IF salvage
                          THEN [fb EXCEPT !.executiveSummary =
                                            t.parsed[1][2]["executiveSummary:"][2]]
                          ELSE fb >>,
           path |-> "fallback", caught |-> t.threw]

\* [raised, value, path, caught]: raised is TRUE when an exception reaches
\* the caller; value is <<the returned record>>; path tells the two returns
\* apart ("parsed" at line 316, "fallback" at line 322) and caught names the
\* exception the catch block handled.
parseStructuredResponse(rawContent) ==
  LET t == TryBlock(rawContent)
  IN IF t.threw = "none"
       THEN [raised |-> FALSE, value |-> t.value, path |-> "parsed", caught |-> "none"]
       ELSE [raised |-> FALSE, value |-> <<createFallbackStructuredData(rawContent)>>,
             path |-> "fallback", caught |-> t.threw]

-----------------------------------------------------------------------------
(* Reply texts.  The model is asked for a JSON object of the shape given   *)
(* in the prompt, wrapped in a fence; it may add prose, truncate the       *)
(* object or get a field wrong.  A reply is composed of the chunks below.  *)

Str(glyphs) == <<QUOTE>> \o glyphs \o <<QUOTE>>

RECURSIVE JoinComma(_)
JoinComma(items) ==
  IF items = <<>> THEN <<>>
  ELSE IF Len(items) = 1 THEN items[1]
  ELSE items[1] \o <<COMMA>> \o JoinComma(Tail(items))

ListText(items) == <<LBRACK>> \o JoinComma(items) \o <<RBRACK>>

FindingText(category) ==
  <<LBRACE, "title:">> \o Str(<<"Widget">>)
    \o <<COMMA, "description:">> \o Str(<<"d">>)
    \o <<COMMA, "category:">> \o Str(<<category>>)
    \o <<COMMA, "importance:">> \o Str(<<"high">>)
    \o <<COMMA, "actionable:", "true", RBRACE>>

ResourceText(name, url) ==
  <<LBRACE, "name:">> \o Str(<<name>>)
    \o <<COMMA, "url:">> \o Str(url)
    \o <<COMMA, "description:">> \o Str(<<"d">>)
    \o <<COMMA, "type:">> \o Str(<<"documentation">>)
    \o <<RBRACE>>

SourceText(title, url) ==
  <<LBRACE, "title:">> \o Str(<<title>>)
    \o <<COMMA, "url:">> \o Str(url)
    \o <<COMMA, "credibility:">> \o Str(<<"official">>)
    \o <<COMMA, "relevance:">> \o Str(<<"high">>)
    \o <<RBRACE>>

CodeExampleText ==
  <<LBRACE, "title:">> \o Str(<<"Example">>)
    \o <<COMMA, "language:">> \o Str(<<"typescript">>)
    \o <<COMMA, "code:">> \o Str(<<PROSE, WS, LBRACE, PROSE, RBRACE>>)
    \o <<COMMA, "description:">> \o Str(<<"d">>)
    \o <<RBRACE>>

\* The object up to the opening quote of its summary, and from the closing
\* quote on (all lists empty).
SummaryOpen == <<LBRACE, "executiveSummary:", QUOTE>>
SummaryClose ==
  <<QUOTE, COMMA, "keyFindings:">> \o ListText(<<>>)
    \o <<COMMA, "recommendedResources:">> \o ListText(<<>>)
    \o <<COMMA, "codeExamples:">> \o ListText(<<>>)
    \o <<COMMA, "sources:">> \o ListText(<<>>)
    \o <<RBRACE>>

RecordText(summary, findings, resources, examples, sources) ==
  <<LBRACE, "executiveSummary:">> \o summary
    \o <<COMMA, "keyFindings:">> \o ListText(findings)
    \o <<COMMA, "recommendedResources:">> \o ListText(resources)
    \o <<COMMA, "codeExamples:">> \o ListText(examples)
    \o <<COMMA, "sources:">> \o ListText(sources)
    \o <<RBRACE>>

\* {"executiveSummary":"x", all lists empty}
RecMinimal == SummaryOpen \o <<"x">> \o SummaryClose

\* A record with an item in every list and valid URLs.
RecFull ==
  RecordText(Str(<<"x", WS, "y">>), <<FindingText("tool")>>,
             <<ResourceText("n", <<U1>>)>>, <<CodeExampleText>>,
             <<SourceText("t", <<U2>>)>>)

\* A category outside the enum.
RecBadEnum ==
  RecordText(Str(<<"x">>), <<FindingText("other")>>,
             <<ResourceText("n", <<U1>>)>>, <<>>, <<>>)

\* No sources field.
RecMissing ==
  <<LBRACE, "executiveSummary:">> \o Str(<<"x">>)
    \o <<COMMA, "keyFindings:">> \o ListText(<<FindingText("tool")>>)
    \o <<COMMA, "recommendedResources:">> \o ListText(<<>>)
    \o <<COMMA, "codeExamples:">> \o ListText(<<>>)
    \o <<RBRACE>>

\* A number where the summary text is expected.
RecWrongType ==
  RecordText(<<"7">>, <<FindingText("tool")>>, <<>>, <<>>, <<>>)

\* A Resource and a Source whose url is not a URL, next to valid ones.
RecBadUrl ==
  RecordText(Str(<<"x">>), <<FindingText("trend")>>,
             <<ResourceText("bad", <<PROSE>>), ResourceText("good", <<U1>>)>>,
             <<>>,
             <<SourceText("good", <<U2>>), SourceText("bad", <<PROSE, WS, PROSE>>)>>)

Fenced(tag, text) == <<FENCE>> \o tag \o <<WS>> \o text \o <<WS, FENCE>>

\* A fenced snippet that is not JSON.
FencedSnippet == <<FENCE, LBRACE, PROSE, RBRACE, FENCE>>

\* A valid record whose summary quotes a fenced snippet.
RecFenceInSummary == SummaryOpen \o FencedSnippet \o SummaryClose

\* Sure! ```json {...} ``` Thanks
Wrapped == <<PROSE, WS>> \o Fenced(<<JSONTAG>>, RecFull) \o <<WS, PROSE>>

\* As follows: {...} Thanks
Embedded == <<PROSE, WS>> \o RecFull \o <<WS, PROSE>>

Chunks ==
  { <<PROSE>>, <<WS>>, <<U1>>,
    <<U1, WS, U2, WS>>,
    <<U3, WS, U1, WS, U2, WS>>,
    <<PROSE, U2, RPAREN>>,
    <<FENCE>>, <<LBRACE>>, <<RBRACE>>,
    RecMinimal, RecFull, RecBadEnum, RecMissing, RecWrongType, RecBadUrl,
    Fenced(<<>>, RecMinimal), Wrapped, Embedded,
    SummaryOpen, SummaryClose, FencedSnippet, RecFenceInSummary }

-----------------------------------------------------------------------------
(* The state machine: a reply text is received chunk by chunk, then        *)
(* parseStructuredResponse runs on it once.                                *)

VARIABLES
  rawContent,      \* the text passed to parseStructuredResponse
  chunks,          \* number of chunks received
  pc,              \* "reply" while the text arrives, "done" after extraction
  structuredData,  \* <<the record returned>>, <<>> before the return
  raised,          \* an exception left parseStructuredResponse
  path,            \* which return was taken: "parsed", "fallback", "none"
  caught           \* the exception its catch block handled, or "none"

\* The state of a run of the application (runDailyResearch), of a call of
\* sendResearchSummary or of an email test.  An optional value is <<>> or <<the value>>.
VARIABLES
  entry,           \* the function invoked: "none" before the invocation
  env,             \* process.env
  today,           \* new Date().getDay(): 0 = Sunday .. 6 = Saturday
  topic,           \* topic.dayOfWeek of the selected topic, 0 for null
  reply,           \* <<how messages.create settled>>
  result,          \* <<the ResearchResult>> conductResearch returned
  smtp,            \* [verify, sendMail]: <<how the transport call settled>>
  trace,           \* the stages entered and transport calls made, in order
  error,           \* <<the error>> that reached the caller
  exitCode,        \* the status of process.exit, -1 while none was called
  rendered,        \* <<what renderResearchEmail came to>>
  mail,            \* <<the argument of transporter.sendMail>>
  returned         \* <<the value testEmailConfiguration returned>>

delivery == <<rendered, mail, returned>>

run == <<entry, env, today, topic, reply, result, smtp, trace, error, exitCode,
         delivery>>

vars == <<rawContent, chunks, pc, structuredData, raised, path, caught, run>>

\* No run is in progress.
NoRun ==
  /\ entry = "none"
  /\ env = <<>>
  /\ today = 0
  /\ topic = 0
  /\ reply = <<>>
  /\ result = <<>>
  /\ smtp = [verify |-> <<>>, sendMail |-> <<>>]
  /\ trace = <<>>
  /\ error = <<>>
  /\ exitCode = -1
  /\ rendered = <<>>
  /\ mail = <<>>
  /\ returned = <<>>

Init ==
  /\ rawContent = <<>>
  /\ chunks = 0
  /\ pc = "reply"
  /\ structuredData = <<>>
  /\ raised = FALSE
  /\ path = "none"
  /\ caught = "none"
  /\ NoRun

ReceiveChunk ==
  /\ pc = "reply"
  /\ chunks < MaxChunks
  /\ \E c \in Chunks : rawContent' = rawContent \o c
  /\ chunks' = chunks + 1
  /\ UNCHANGED <<pc, structuredData, raised, path, caught, run>>

Extract ==
  /\ pc = "reply"
  /\ \E r \in {parseStructuredResponse(rawContent)} :
        /\ structuredData' = r.value
        /\ raised' = r.raised
        /\ path' = r.path
        /\ caught' = r.caught
  /\ pc' = "done"
  /\ UNCHANGED <<rawContent, chunks, run>>

Next == ReceiveChunk \/ Extract

Spec == Init /\ [][Next]_vars

-----------------------------------------------------------------------------
(* Properties of extraction *)

Done == pc = "done"
Degraded == Done /\ path = "fallback"
Record == structuredData[1]

MinNat(a, b) == IF a < b THEN a ELSE b

\* C1: parseStructuredResponse never raises to its caller: whatever the raw
\* text, once it has run no exception has left it and it has returned a
\* record.
C1_NeverRaises == Done => (~raised /\ Len(structuredData) = 1)

C1_Witness ==
  /\ Done /\ caught = "ZodError"
  /\ ~raised /\ Len(structuredData) = 1

\* C2: every degraded record has exactly one finding, the synthetic one
\* (category update, importance medium, not actionable), no code examples,
\* and the summary that says parsing failed.
C2_DegradedShape ==
  Degraded =>
    /\ Len(Record.keyFindings) = 1
    /\ Record.keyFindings[1].category = "update"
    /\ Record.keyFindings[1].importance = "medium"
    /\ Record.keyFindings[1].actionable = FALSE
    /\ Record.codeExamples = <<>>
    /\ Record.executiveSummary = ParseFailedSummary

C2_Witness ==
  /\ Degraded /\ caught = "SyntaxError" /\ rawContent # <<>>
  /\ Len(Record.keyFindings) = 1

\* A URL match starts at a URL glyph that no earlier match covers: every
\* earlier URL glyph is cut off from it by white space or `)`.
Terminators == {WS, RPAREN}
MatchStart(s, i) ==
  /\ s[i] \in UrlGlyphs
  /\ \A j \in 1..(i - 1) :
       s[j] \in UrlGlyphs => \E k \in (j + 1)..(i - 1) : s[k] \in Terminators
MatchStarts(s) == {i \in 1..Len(s) : MatchStart(s, i)}
\* The match that starts at i runs up to the next terminator.
MatchAt(s, i, e) ==
  /\ e >= i /\ e <= Len(s)
  /\ \A k \in (i + 1)..e : s[k] \notin Terminators
  /\ (e = Len(s) \/ s[e + 1] \in Terminators)
\* url is the k-th match of the raw text.
IsKthMatch(s, k, url) ==
  \E i \in MatchStarts(s) :
    /\ Cardinality({j \in MatchStarts(s) : j <= i}) = k
    /\ \E e \in i..Len(s) : MatchAt(s, i, e) /\ url = SubSeq(s, i, e)

\* C3: in a degraded record, with n the number of URL matches in the whole
\* raw text, Resources holds the first min(3, n) matches and Sources the
\* first min(5, n), in order of appearance, each occurring verbatim in the
\* raw text.
C3_DegradedUrls ==
  Degraded =>
    LET n == Cardinality(MatchStarts(rawContent))
    IN /\ Len(Record.recommendedResources) = MinNat(3, n)
       /\ Len(Record.sources) = MinNat(5, n)
       /\ \A k \in 1..Len(Record.recommendedResources) :
            /\ IsKthMatch(rawContent, k, Record.recommendedResources[k].url)
            /\ OccursIn(Record.recommendedResources[k].url, rawContent)
       /\ \A k \in 1..Len(Record.sources) :
            /\ IsKthMatch(rawContent, k, Record.sources[k].url)
            /\ OccursIn(Record.sources[k].url, rawContent)

C3_Witness ==
  /\ Degraded
  /\ Cardinality(MatchStarts(rawContent)) > 5
  /\ Len(Record.recommendedResources) = 3
  /\ Len(Record.sources) = 5

\* C4 (as claimed): the Sources of a degraded record never hold the same URL
\* twice.
C4_SourcesDeduplicated ==
  Degraded =>
    \A i, j \in 1..Len(Record.sources) :
      i # j => Record.sources[i].url # Record.sources[j].url

\* C4 (amended): no deduplication takes place: Sources has one entry per
\* match among the first five matches, so each URL occurs in Sources as
\* often as it is matched there.
C4_SourcesKeepDuplicates ==
  Degraded =>
    LET urls == SliceFirst(UrlMatches(rawContent), 5)
    IN /\ Len(Record.sources) = Len(urls)
       /\ \A m \in 1..Len(urls) :
            Cardinality({i \in 1..Len(Record.sources) : Record.sources[i].url = urls[m]})
              = Cardinality({i \in 1..Len(urls) : urls[i] = urls[m]})

C4_Witness ==
  /\ Degraded
  /\ \E i, j \in 1..Len(Record.sources) :
       i # j /\ Record.sources[i].url = Record.sources[j].url

\* The k-th smallest element of a set of indices.
Kth(S, k) == CHOOSE x \in S : Cardinality({y \in S : y <= x}) = k

\* Fenced blocks, fences paired in order of appearance: block k lies between
\* the fences number 2k-1 and 2k; its interior follows the optional json tag.
FencePositions(s) == {i \in 1..Len(s) : s[i] = FENCE}
BlockCount(s) == Cardinality(FencePositions(s)) \div 2
BlockOpen(s, k) == Kth(FencePositions(s), 2 * k - 1)
BlockClose(s, k) == Kth(FencePositions(s), 2 * k)
BlockInterior(s, k) ==
  LET o == BlockOpen(s, k)
      from == IF o + 1 <= Len(s) /\ s[o + 1] = JSONTAG THEN o + 2 ELSE o + 1
  IN SubSeq(s, from, BlockClose(s, k) - 1)
BraceBlocks(s) ==
  {k \in 1..BlockCount(s) :
     /\ Trim(BlockInterior(s, k)) # <<>>
     /\ Head(Trim(BlockInterior(s, k))) = LBRACE}

\* C5: when the raw text holds several fenced blocks whose trimmed interiors
\* begin with `{`, the first of them alone is the candidate: the outcome is
\* the outcome of extracting from that block alone, the same record when it
\* parses and validates, the degraded record of the raw text when it does
\* not.
C5_FirstBlockAlone ==
  (Done /\ Cardinality(BraceBlocks(rawContent)) >= 2) =>
    LET k == MinOf(BraceBlocks(rawContent))
        alone == parseStructuredResponse(
                   SubSeq(rawContent, BlockOpen(rawContent, k), BlockClose(rawContent, k)))
    IN /\ path = alone.path
       /\ path = "parsed" => structuredData = alone.value
       /\ path = "fallback" =>
            structuredData = <<createFallbackStructuredData(rawContent)>>

\* The record a JSON value of the schema's shape is, field for field, with
\* every list item kept.
RecordOf(v) ==
  [executiveSummary     |-> v[2]["executiveSummary:"][2],
   keyFindings          |-> MapSeq(v[2]["keyFindings:"][2], ToFinding),
   recommendedResources |-> MapSeq(v[2]["recommendedResources:"][2], ToResource),
   codeExamples         |-> MapSeq(v[2]["codeExamples:"][2], ToCodeExample),
   sources              |-> MapSeq(v[2]["sources:"][2], ToSource)]

\* The text is well-formed JSON that matches the schema, URLs included.
MatchesSchema(text) ==
  /\ JsonParse(text).ok
  /\ SchemaShape(JsonParse(text).val)
  /\ \A i \in 1..Len(RecordOf(JsonParse(text).val).recommendedResources) :
       HasValidUrl(RecordOf(JsonParse(text).val).recommendedResources[i])
  /\ \A i \in 1..Len(RecordOf(JsonParse(text).val).sources) :
       HasValidUrl(RecordOf(JsonParse(text).val).sources[i])

\* The fenced interior of the first attempt and the slice of the full text.
FenceFound == FenceMatch(Trim(rawContent)).found
FenceInterior == FenceMatch(Trim(rawContent)).group
FullTextSlice ==
  LET a == IndexOf(rawContent, LBRACE)
      b == LastIndexOf(rawContent, RBRACE)
  IN IF a # 0 /\ b > a THEN SubSeq(rawContent, a, b) ELSE <<>>

\* C6 (as claimed): when a fenced block is matched and its interior does not
\* parse as JSON, the slice of the full raw text from the first `{` to the
\* last `}` is tried, and the full-fidelity record is returned if that slice
\* parses and validates.
C6_RetryOverFullText ==
  (Done /\ FenceFound /\ ~JsonParse(FenceInterior).ok /\ MatchesSchema(FullTextSlice)) =>
    /\ path = "parsed"
    /\ structuredData = <<RecordOf(JsonParse(FullTextSlice).val)>>

\* C6 (amended): when a fenced block is matched, its interior is the only
\* candidate: if the interior does not parse as JSON the degraded record is
\* returned, whatever the full raw text holds.
C6_NoSecondAttempt ==
  (Done /\ FenceFound /\ ~JsonParse(FenceInterior).ok) =>
    /\ path = "fallback"
    /\ caught = "SyntaxError"
    /\ structuredData = <<createFallbackStructuredData(rawContent)>>

C6_Witness ==
  /\ Done /\ FenceFound /\ ~JsonParse(FenceInterior).ok
  /\ MatchesSchema(FullTextSlice)
  /\ path = "fallback"

\* C7: a raw text made of prose, one well-formed fenced JSON block matching
\* the schema, and prose again (the prose holds no fence) yields the record
\* the JSON is, field for field with every list item kept, which is also the
\* result for the fenced block without the prose.
C7_FencedRecordInProse ==
  LET a == IndexOf(rawContent, FENCE)
      b == LastIndexOf(rawContent, FENCE)
      from == IF a + 1 <= Len(rawContent) /\ rawContent[a + 1] = JSONTAG
                THEN a + 2 ELSE a + 1
      interior == SubSeq(rawContent, from, b - 1)
  IN (Done /\ a # 0 /\ b > a /\ MatchesSchema(interior)) =>
       /\ path = "parsed"
       /\ structuredData = <<RecordOf(JsonParse(interior).val)>>
       /\ structuredData = parseStructuredResponse(SubSeq(rawContent, a, b)).value

C7_Witness ==
  LET a == IndexOf(rawContent, FENCE)
      b == LastIndexOf(rawContent, FENCE)
  IN /\ Done /\ a > 1 /\ b > a + 1 /\ b < Len(rawContent)
     /\ rawContent[1] = PROSE /\ rawContent[Len(rawContent)] = PROSE
     /\ MatchesSchema(SubSeq(rawContent, a + 2, b - 1))
     /\ path = "parsed"
     /\ Len(Record.keyFindings) >= 1 /\ Len(Record.sources) >= 1

\* No brace and no fence.
ProseOnly(text) ==
  \A i \in 1..Len(text) : text[i] \notin {LBRACE, RBRACE, FENCE}

C9_InvalidAsUnparseable ==
  (Done /\ caught = "ZodError") =>
    /\ path = "fallback"
    /\ structuredData = <<createFallbackStructuredData(rawContent)>>
    /\ Record.executiveSummary = ParseFailedSummary
    /\ Record.keyFindings = <<ParsingErrorFinding>>

C9_Witness ==
  /\ Done /\ caught = "ZodError"
  /\ JsonParse(JsonCandidate(rawContent)).ok
  /\ IsObject(JsonParse(JsonCandidate(rawContent)).val)
  /\ HasString(JsonParse(JsonCandidate(rawContent)).val[2], "executiveSummary:")
  /\ path = "fallback"

\* Number of items of a JSON array of Resources or Sources whose url is not
\* a valid URL.
InvalidUrlCount(arr) ==
  Cardinality({i \in 1..Len(arr[2]) : ~IsValidUrl(arr[2][i][2]["url:"][2])})

\* C10: when an otherwise valid parsed record holds Resources or Sources
\* whose URL is not a valid absolute HTTP/HTTPS URL, those items alone are
\* dropped, the others keep their order, every other field is as parsed and
\* the result is the full-fidelity one.
C10_InvalidUrlItemDropped ==
  LET parsed == JsonParse(JsonCandidate(rawContent))
  IN (Done /\ parsed.ok /\ SchemaShape(parsed.val)) =>
       /\ path = "parsed"
       /\ Record.recommendedResources =
            SelectSeq(RecordOf(parsed.val).recommendedResources, HasValidUrl)
       /\ Record.sources = SelectSeq(RecordOf(parsed.val).sources, HasValidUrl)
       /\ Record.executiveSummary = RecordOf(parsed.val).executiveSummary
       /\ Record.keyFindings = RecordOf(parsed.val).keyFindings
       /\ Record.codeExamples = RecordOf(parsed.val).codeExamples

C10_Witness ==
  LET parsed == JsonParse(JsonCandidate(rawContent))
  IN /\ Done /\ parsed.ok /\ SchemaShape(parsed.val)
     /\ InvalidUrlCount(parsed.val[2]["recommendedResources:"]) >= 1
     /\ InvalidUrlCount(parsed.val[2]["sources:"]) >= 1
     /\ path = "parsed"
     /\ Len(Record.recommendedResources) >= 1 /\ Len(Record.sources) >= 1


-----------------------------------------------------------------------------
(* The application run (runDailyResearch), the research request            *)
(* (conductResearch) and the delivery (sendResearchSummary).               *)
(*                                                                         *)
(* An optional number is a pair: <<"number", n>>, <<"NaN", 0>> or          *)
(* <<"undefined", 0>>.  An error object is [name, code, statusCode,        *)
(* retryAfter]; errors of the libraries carry their own fields.            *)

Undefined == <<"undefined", 0>>
NaN == <<"NaN", 0>>
Num(n) == <<"number", n>>

\* new ResearchAutomationError(message, code, statusCode?, retryAfter?)
ResearchAutomationError(code, statusCode, retryAfter) ==
  [name |-> "ResearchAutomationError", code |-> code,
   statusCode |-> statusCode, retryAfter |-> retryAfter]

\* new ConfigurationError(message)
ConfigurationError ==
  [name |-> "ConfigurationError", code |-> "CONFIGURATION_ERROR",
   statusCode |-> Undefined, retryAfter |-> Undefined]

\* error instanceof ResearchAutomationError
IsResearchAutomationError(e) ==
  e.name \in {"ResearchAutomationError", "ConfigurationError"}

-----------------------------------------------------------------------------
(* Environment validation.  process.env is [ANTHROPIC_API_KEY, EMAIL_USER, *)
(* EMAIL_PASS, EMAIL_RECIPIENTS, NODE_ENV, DAY, SCHEDULE]; an unset        *)
(* variable is "".  EMAIL_RECIPIENTS and SCHEDULE are kept as the list of  *)
(* their comma-separated parts, <<>> when unset.  EMAIL_HOST and           *)
(* EMAIL_PORT always get a value of the right type and are left out.       *)

EmailAddresses == {"me@example.com", "a@example.com", "b@example.com"}
NodeEnvs == {"development", "production", "test"}

\* EnvSchema.parse succeeds
EnvSchemaOk(e) ==
  /\ e.ANTHROPIC_API_KEY # ""
  /\ e.EMAIL_USER \in EmailAddresses
  /\ e.EMAIL_PASS # ""
  /\ e.EMAIL_RECIPIENTS # <<>>
  /\ (IF e.NODE_ENV = "" THEN "development" ELSE e.NODE_ENV) \in NodeEnvs

\* A validation that accepts every environment.
validateEnvironmentBugAccept(e) == [threw |-> FALSE, error |-> <<>>]

\* [threw, error]
validateEnvironment(e) ==
  IF EnvSchemaOk(e) THEN [threw |-> FALSE, error |-> <<>>]
  ELSE [threw |-> TRUE, error |-> <<ConfigurationError>>]

-----------------------------------------------------------------------------
(* Topic selection.  A topic is identified by its dayOfWeek (1 = Monday .. *)
(* 5 = Friday); 0 stands for null.                                         *)

LowerCase(w) ==
  CASE w = "FRI" -> "fri"
    [] w = "Wednesday" -> "wednesday"
    [] w = "Monday" -> "monday"
    [] w = " Fri" -> " fri"
    [] OTHER -> w

TrimWord(w) == IF w = " fri" THEN "fri" ELSE w

\* DAY_ABBREVIATIONS[w], 0 when w is not a key
DAY_ABBREVIATIONS(w) ==
  CASE w \in {"mon", "monday"} -> 1
    [] w \in {"tue", "tuesday"} -> 2
    [] w \in {"wed", "wednesday"} -> 3
    [] w \in {"thu", "thursday"} -> 4
    [] w \in {"fri", "friday"} -> 5
    [] OTHER -> 0

\* A table that names the weekend days too.
dayAbbreviationsBugWeekend(dayOfWeek) ==
  CASE dayOfWeek = 0 -> {"sun", "sunday"}
    [] dayOfWeek = 1 -> {"mon", "monday"}
    [] dayOfWeek = 2 -> {"tue", "tuesday"}
    [] dayOfWeek = 3 -> {"wed", "wednesday"}
    [] dayOfWeek = 4 -> {"thu", "thursday"}
    [] dayOfWeek = 5 -> {"fri", "friday"}
    [] dayOfWeek = 6 -> {"sat", "saturday"}
    [] OTHER -> {}

\* dayAbbreviations[dayOfWeek] || []
dayAbbreviations(dayOfWeek) ==
  CASE dayOfWeek = 1 -> {"mon", "monday"}
    [] dayOfWeek = 2 -> {"tue", "tuesday"}
    [] dayOfWeek = 3 -> {"wed", "wednesday"}
    [] dayOfWeek = 4 -> {"thu", "thursday"}
    [] dayOfWeek = 5 -> {"fri", "friday"}
    [] OTHER -> {}

\* RESEARCH_TOPICS.find(topic => topic.dayOfWeek === dayOfWeek) || null
getTopicByDay(dayOfWeek) == IF dayOfWeek \in 1..5 THEN dayOfWeek ELSE 0

\* A lookup of the override as it was typed.
getTopicByDayAbbrBugCaseSensitive(dayAbbr) ==
  LET dayNumber == DAY_ABBREVIATIONS(dayAbbr)
  IN IF dayNumber # 0 THEN getTopicByDay(dayNumber) ELSE 0

getTopicByDayAbbr(dayAbbr) ==
  LET dayNumber == DAY_ABBREVIATIONS(LowerCase(dayAbbr))
  IN IF dayNumber # 0 THEN getTopicByDay(dayNumber) ELSE 0

\* A schedule that is always Monday to Friday.
shouldRunTodayBugIgnoreSchedule(scheduleEnv, day) == day >= 1 /\ day <= 5

shouldRunToday(scheduleEnv, day) ==
  IF scheduleEnv = <<>> THEN day >= 1 /\ day <= 5
  ELSE \E i \in 1..Len(scheduleEnv) :
         TrimWord(LowerCase(scheduleEnv[i])) \in dayAbbreviations(day)

\* A selection that falls back to Monday's topic where none is found.
getCurrentTopicBugDefaultMonday(dayOverride, scheduleEnv, day) ==
  IF dayOverride # "" /\ getTopicByDayAbbr(dayOverride) # 0
    THEN getTopicByDayAbbr(dayOverride)
  ELSE IF ~shouldRunToday(scheduleEnv, day) THEN getTopicByDay(1)
  ELSE IF day = 0 \/ day = 6 THEN getTopicByDay(1)
  ELSE getTopicByDay(day)

getCurrentTopic(dayOverride, scheduleEnv, day) ==
  IF dayOverride # "" THEN getTopicByDayAbbr(dayOverride)
  ELSE IF ~shouldRunToday(scheduleEnv, day) THEN 0
  ELSE IF day = 0 \/ day = 6 THEN getTopicByDay(1)
  ELSE getTopicByDay(day)

-----------------------------------------------------------------------------
(* The model reply.  messages.create settles as [kind |-> "resolved",      *)
(* response] or [kind |-> "rejected", error].  A response is               *)
(* [type, role, content, usage]; a content block is [type, text] for a     *)
(* text segment and [type, name] for a tool invocation or its result.      *)

TextBlock(text) == [type |-> "text", text |-> text]
ToolUseBlock == [type |-> "server_tool_use", name |-> "web_search"]
ToolResultBlock == [type |-> "web_search_tool_result", name |-> "web_search"]

\* ClaudeResponseSchema.parse succeeds.  The fields id, model, stop_reason
\* and stop_sequence are present in every response and are left out.
ClaudeResponseSchemaOk(response) ==
  /\ {"type", "role", "content", "usage"} \subseteq DOMAIN response
  /\ response.type = "message"
  /\ response.role = "assistant"
  /\ \A i \in 1..Len(response.content) :
       /\ response.content[i].type = "text"
       /\ "text" \in DOMAIN response.content[i]

\* texts.join('\n\n'): the separator is one run of white space
RECURSIVE JoinParagraphs(_)
JoinParagraphs(texts) ==
  IF texts = <<>> THEN <<>>
  ELSE IF Len(texts) = 1 THEN texts[1]
  ELSE texts[1] \o <<WS>> \o JoinParagraphs(Tail(texts))

\* A join that keeps the blank segments.
RawContentOfBugKeepBlank(content) ==
  LET IsText(block) == block.type = "text"
      textBlocks == SelectSeq(content, IsText)
      texts == [i \in 1..Len(textBlocks) |-> textBlocks[i].text]
  IN JoinParagraphs(texts)

\* lines 112-116: the text of the text blocks that hold something other
\* than white space, joined
RawContentOf(content) ==
  LET IsText(block) == block.type = "text"
      textBlocks == SelectSeq(content, IsText)
      texts == [i \in 1..Len(textBlocks) |-> textBlocks[i].text]
      NotBlank(text) == text # <<>> /\ Trim(text) # <<>>
  IN JoinParagraphs(SelectSeq(texts, NotBlank))

\* Number(text) of a header value
DecimalValue == ("0" :> 0) @@ ("30" :> 30)
NumberOf(text) ==
  IF text \in DOMAIN DecimalValue THEN Num(DecimalValue[text]) ELSE NaN

\* A conversion that forgets the header.
RetryAfterOfBugDrop(headers) == Undefined

\* error.headers?.['retry-after'] ? Number(error.headers['retry-after'])
\*                                : undefined
RetryAfterOf(headers) ==
  IF "retry-after" \in DOMAIN headers /\ headers["retry-after"] # ""
    THEN NumberOf(headers["retry-after"])
    ELSE Undefined

\* A catch block with a code of its own for a reply that fails validation.
CatchResearchErrorBugOwnCode(e) ==
  IF e.name = "APIError"
    THEN ResearchAutomationError("CLAUDE_API_ERROR", e.status,
                                 RetryAfterOf(e.headers))
  ELSE IF IsResearchAutomationError(e) THEN e
  ELSE IF e.name = "ZodError"
    THEN ResearchAutomationError("INVALID_RESPONSE", Undefined, Undefined)
  ELSE ResearchAutomationError("UNEXPECTED_ERROR", Undefined, Undefined)

\* The catch block of conductResearch (lines 144-167): the error it throws.
CatchResearchError(e) ==
  IF e.name = "APIError"
    THEN ResearchAutomationError("CLAUDE_API_ERROR", e.status,
                                 RetryAfterOf(e.headers))
  ELSE IF IsResearchAutomationError(e) THEN e
  ELSE ResearchAutomationError("UNEXPECTED_ERROR", Undefined, Undefined)

\* [threw, result, rawContent, extraction]: what the try block of
\* conductResearch does.  threw is <<the error thrown>>, result <<the
\* ResearchResult>>, extraction <<what parseStructuredResponse did>> when it
\* was called.
NothingDone ==
  [threw |-> <<>>, result |-> <<>>, rawContent |-> <<>>, extraction |-> <<>>]

\* lines 123-143: r is what parseStructuredResponse(rawContent) did
BuildResult(response, selected, now, raw, r) ==
  IF r.raised
    THEN [NothingDone EXCEPT !.threw = <<[name |-> "ZodError"]>>,
                             !.rawContent = raw, !.extraction = <<r>>]
    ELSE [threw |-> <<>>,
          result |-> <<[topic |-> selected,
                        structuredData |-> r.value[1],
                        htmlContent |-> <<>>,
                        generatedAt |-> now,
                        tokenUsage |->
                          [input |-> response.usage.input_tokens,
                           output |-> response.usage.output_tokens]]>>,
          rawContent |-> raw,
          extraction |-> <<r>>]

\* lines 111-123: raw is the joined text of the validated response
ExtractFrom(response, selected, now, raw) ==
  IF raw = <<>>
    THEN [NothingDone EXCEPT !.threw = <<ResearchAutomationError(
                                 "EMPTY_RESPONSE", Undefined, Undefined)>>]
    ELSE BuildResult(response, selected, now, raw,
                     parseStructuredResponse(raw))

\* The try block of conductResearch after messages.create settled (lines
\* 88-143).
ResearchTry(settled, selected, now) ==
  IF settled.kind = "rejected"
    THEN [NothingDone EXCEPT !.threw = <<settled.error>>]
  ELSE IF ~ClaudeResponseSchemaOk(settled.response)
    THEN [NothingDone EXCEPT !.threw = <<[name |-> "ZodError"]>>]
  ELSE ExtractFrom(settled.response, selected, now,
                   RawContentOf(settled.response.content))

\* The catch block applied to what the try block did.
Caught(t) ==
  IF t.threw = <<>> THEN t
  ELSE [t EXCEPT !.threw = <<CatchResearchError(t.threw[1])>>]

\* A conductResearch that answers a failure with an empty record.
conductResearchBugSwallow(settled, selected, now) ==
  LET t == ResearchTry(settled, selected, now)
  IN IF t.threw = <<>> THEN t
     ELSE [t EXCEPT !.threw = <<>>,
                    !.result = <<[topic |-> selected,
                                  structuredData |->
                                    createFallbackStructuredData(<<>>),
                                  htmlContent |-> <<>>,
                                  generatedAt |-> now,
                                  tokenUsage |-> [input |-> 0, output |-> 0]]>>]

\* conductResearch after messages.create settled: the same record, with
\* the error of the catch block in threw.
conductResearch(settled, selected, now) ==
  Caught(ResearchTry(settled, selected, now))

-----------------------------------------------------------------------------
(* Delivery.  A transport call settles as [kind |-> "resolved", info] or   *)
(* [kind |-> "rejected", error]; the info of sendMail is [accepted,        *)
(* rejected], two lists of recipients; a transport error is [name, code],  *)
(* or [name] when it has no code.                                          *)

\* A verification that only logs the failure.
verifyConnectionBugLogOnly(settled) == [threw |-> <<>>]

\* verifyConnection (lines 281-292) after transporter.verify() settled
verifyConnection(settled) ==
  IF settled.kind = "resolved" THEN [threw |-> <<>>]
  ELSE [threw |-> <<ResearchAutomationError(
                      "EMAIL_CONNECTION_VERIFICATION_ERROR",
                      Undefined, Undefined)>>]

\* A classification without the timeout case.
CatchSendErrorBugNoTimeout(e) ==
  IF IsResearchAutomationError(e) THEN e
  ELSE IF "code" \in DOMAIN e
    THEN ResearchAutomationError(
           CASE e.code = "EAUTH" -> "EMAIL_AUTH_ERROR"
             [] e.code = "ECONNREFUSED" -> "EMAIL_CONNECTION_ERROR"
             [] OTHER -> "EMAIL_SEND_ERROR",
           Undefined, Undefined)
  ELSE ResearchAutomationError("EMAIL_UNEXPECTED_ERROR", Undefined, Undefined)

\* The catch block of sendResearchSummary (lines 234-273): the error it
\* throws.
CatchSendError(e) ==
  IF IsResearchAutomationError(e) THEN e
  ELSE IF "code" \in DOMAIN e
    THEN ResearchAutomationError(
           CASE e.code = "EAUTH" -> "EMAIL_AUTH_ERROR"
             [] e.code = "ECONNREFUSED" -> "EMAIL_CONNECTION_ERROR"
             [] e.code = "ETIMEDOUT" -> "EMAIL_TIMEOUT_ERROR"
             [] OTHER -> "EMAIL_SEND_ERROR",
           Undefined, Undefined)
  ELSE ResearchAutomationError("EMAIL_UNEXPECTED_ERROR", Undefined, Undefined)

\* A check that only warns about rejected recipients.
DeliveryCheckBugWarnOnly(info) == [threw |-> <<>>]

\* lines 219-233: the count of info.rejected (always a list here) and the
\* throw on a rejected recipient
DeliveryCheck(info) ==
  LET rejectedCount == Len(info.rejected)
  IN IF rejectedCount > 0
       THEN [threw |-> <<ResearchAutomationError(
                           "EMAIL_DELIVERY_PARTIAL_FAILURE",
                           Undefined, Undefined)>>]
       ELSE [threw |-> <<>>]

\* lines 590-595 of runDailyResearch: the log after conductResearch reads
\* tokenUsage, sources.length and content.length of the result; reading
\* length of a field the result does not have throws.
LogResearchCompleted(researchResult) ==
  IF {"tokenUsage", "sources", "content"} \subseteq DOMAIN researchResult
    THEN [threw |-> <<>>]
    ELSE [threw |-> <<[name |-> "TypeError"]>>]

-----------------------------------------------------------------------------
(* Rendering.  HTML is a sequence of glyphs: a tag is LT, its name with    *)
(* its attributes, GT; NL is a line break of a template with the           *)
(* indentation that follows it.                                            *)

NL == "nl"

Tag(name) == <<LT, name, GT>>

RECURSIVE Flatten(_)
Flatten(parts) ==
  IF parts = <<>> THEN <<>> ELSE Head(parts) \o Flatten(Tail(parts))

\* RESEARCH_TOPICS[...].name, by dayOfWeek.
TopicName ==
  << <<"AI Development Tools", WS, AMP, WS, "LangChain Ecosystem">>,
     <<"DevOps, CI/CD", WS, AMP, WS, "Development Automation">>,
     <<"AWS", WS, AMP, WS, "Serverless Architecture (SST Focus)">>,
     <<"React/Next.js", WS, AMP, WS, "TypeScript Ecosystem">>,
     <<"VS Code Extensions", WS, AMP, WS, "Developer Productivity">> >>

\* Date.prototype.getDay(): 0 is Sunday.
LongWeekday ==
  <<"Sunday", "Monday", "Tuesday", "Wednesday", "Thursday", "Friday",
    "Saturday">>

\* generatedAt.toLocaleDateString('en-GB', {weekday: 'long', ...})
FormattedDate(generatedAt) == <<LongWeekday[generatedAt + 1], WS, "date">>

\* String.prototype.toUpperCase() on an importance.
ToUpperCase(word) ==
  CASE word = "high"   -> "HIGH"
    [] word = "medium" -> "MEDIUM"
    [] word = "low"    -> "LOW"
    [] OTHER           -> word

\* <a href="${url}" target="_blank">
FallbackAnchor(url) ==
  <<LT, "a href=", QUOTE>> \o url \o <<QUOTE, WS, "target=_blank", GT>>

FallbackFinding(finding) ==
  <<NL>> \o Tag("div class=finding") \o <<NL>>
    \o Tag("h3") \o finding.title \o <<WS>>
    \o Tag("span class=badge") \o <<ToUpperCase(finding.importance)>>
    \o Tag("/span") \o Tag("/h3") \o <<NL>>
    \o Tag("p") \o finding.description \o Tag("/p") \o <<NL>>
    \o Tag("/div") \o <<NL>>

FallbackResource(resource) ==
  <<NL>> \o Tag("li") \o FallbackAnchor(resource.url) \o resource.name
    \o Tag("/a") \o <<WS, "-", WS>> \o resource.description \o Tag("/li")
    \o <<NL>>

FallbackSource(source) ==
  <<NL>> \o Tag("li") \o FallbackAnchor(source.url) \o source.title
    \o Tag("/a") \o Tag("/li") \o <<NL>>

\* The template's head: its title holds the topic name, its style block is
\* text between two tags.
FallbackHead(researchTopic) ==
  <<NL>> \o Tag("!DOCTYPE html") \o <<NL>> \o Tag("html") \o <<NL>>
    \o Tag("head") \o <<NL>> \o Tag("meta charset=utf-8") \o <<NL>>
    \o Tag("meta name=viewport") \o <<NL>>
    \o Tag("title") \o <<"AI Dev Tools Research -", WS>> \o TopicName[researchTopic]
    \o Tag("/title") \o <<NL>>
    \o Tag("style") \o <<NL, "css", NL>> \o Tag("/style") \o <<NL>>
    \o Tag("/head") \o <<NL>>

\* The values are interpolated as they are: nothing is escaped, and there
\* is no section for the code examples.
createFallbackHtmlTemplate(props) ==
  FallbackHead(props.topic)
    \o Tag("body") \o <<NL>> \o Tag("div class=container") \o <<NL>>
    \o Tag("div class=header") \o <<NL>>
    \o Tag("h1") \o <<"AI Dev Tools Research">> \o Tag("/h1") \o <<NL>>
    \o Tag("p") \o TopicName[props.topic] \o <<WS, "bullet", WS>>
    \o FormattedDate(props.generatedAt) \o Tag("/p") \o <<NL>>
    \o Tag("/div") \o <<NL, NL>>
    \o Tag("div class=content") \o <<NL>>
    \o Tag("h2") \o <<"Executive Summary">> \o Tag("/h2") \o <<NL>>
    \o Tag("p") \o props.research.executiveSummary \o Tag("/p") \o <<NL, NL>>
    \o Tag("h2") \o <<"Key Findings">> \o Tag("/h2") \o <<NL>>
    \o Flatten([i \in 1..Len(props.research.keyFindings) |->
                  FallbackFinding(props.research.keyFindings[i])])
    \o <<NL, NL>>
    \o Tag("h2") \o <<"Recommended Resources">> \o Tag("/h2") \o <<NL>>
    \o Tag("ul") \o <<NL>>
    \o Flatten([i \in 1..Len(props.research.recommendedResources) |->
                  FallbackResource(props.research.recommendedResources[i])])
    \o <<NL>> \o Tag("/ul") \o <<NL, NL>>
    \o Tag("h2") \o <<"Sources">> \o Tag("/h2") \o <<NL>>
    \o Tag("ul") \o <<NL>>
    \o Flatten([i \in 1..Len(props.research.sources) |->
                  FallbackSource(props.research.sources[i])])
    \o <<NL>> \o Tag("/ul") \o <<NL>> \o Tag("/div") \o <<NL>>
    \o Tag("/html")

\* The primary template, as render() serialises it.  React escapes text
\* children and attribute values.
EscapeGlyph(g) ==
  CASE g = AMP   -> "&amp;"
    [] g = LT    -> "&lt;"
    [] g = GT    -> "&gt;"
    [] g = QUOTE -> "&quot;"
    [] g = APOS  -> "&#x27;"
    [] OTHER     -> g

Escape(text) == [i \in 1..Len(text) |-> EscapeGlyph(text[i])]

\* The marker React puts between two adjacent text children.
TextBreak == Tag("!-- --")

\* <Heading>, <Text>, <Link>, <Section>, <Hr> of @react-email/components.
Heading(children) == Tag("h1") \o children \o Tag("/h1")
Text(children)    == Tag("p") \o children \o Tag("/p")
Link(href, children) ==
  <<LT, "a href=", QUOTE>> \o Escape(href) \o <<QUOTE, WS, "target=_blank", GT>>
    \o children \o Tag("/a")
Section(children) == Tag("table") \o children \o Tag("/table")
Hr == Tag("hr")

\* String.prototype.slice(0, 100) of the summary, for the preview line.
PreviewLength == 100
Preview(props) ==
  Tag("div data-skip-in-text") \o Escape(TopicName[props.topic])
    \o <<WS, "-", WS>>
    \o Escape(SliceFirst(props.research.executiveSummary, PreviewLength))
    \o <<"...">> \o Tag("/div")

PrimaryFinding(finding) ==
  Tag("div") \o Tag("div") \o Heading(Escape(finding.title))
    \o Tag("span") \o <<ToUpperCase(finding.importance)>> \o Tag("/span")
    \o Tag("/div") \o Text(Escape(finding.description))
    \o Tag("div") \o Tag("span") \o <<finding.category>> \o Tag("/span")
    \o (IF finding.actionable
          THEN Tag("span") \o <<"Actionable">> \o Tag("/span") ELSE <<>>)
    \o Tag("/div") \o Tag("/div")

PrismLanguages ==
  {"typescript", "javascript", "python", "json", "bash", "tsx", "jsx"}

PrimaryCodeExample(example) ==
  LET prismLanguage ==
        IF Len(example.language) = 1 /\ example.language[1] \in PrismLanguages
          THEN example.language[1] ELSE "typescript"
  IN Tag("div") \o Heading(Escape(example.title))
       \o Text(Escape(example.description))
       \o Tag("div") \o Tag("div") \o <<prismLanguage>> \o Tag("/div")
       \o Tag("pre") \o Tag("code") \o Escape(example.code) \o Tag("/code")
       \o Tag("/pre") \o Tag("/div") \o Tag("/div")

PrimaryResource(resource) ==
  Tag("div") \o Tag("div")
    \o Link(resource.url, Escape(resource.name) \o TextBreak \o <<WS, "->">>)
    \o Tag("span") \o <<resource.type>> \o Tag("/span") \o Tag("/div")
    \o Text(Escape(resource.description)) \o Tag("/div")

PrimarySource(source) ==
  Tag("div") \o Link(source.url, Escape(source.title))
    \o Tag("div") \o Tag("span") \o <<source.credibility>> \o Tag("/span")
    \o Tag("span") \o <<source.relevance>> \o TextBreak
    \o <<WS, "relevance">> \o Tag("/span") \o Tag("/div") \o Tag("/div")

\* A section of code examples that is rendered for every list.
CodeExamplesSectionBugAlways(research) ==
  Section(Heading(<<"Code Examples">>)
            \o Flatten([i \in 1..Len(research.codeExamples) |->
                          PrimaryCodeExample(research.codeExamples[i])]))
    \o Hr

\* The section of the code examples is rendered only for a list that is
\* not empty.
CodeExamplesSection(research) ==
  IF Len(research.codeExamples) > 0
    THEN Section(Heading(<<"Code Examples">>)
                   \o Flatten([i \in 1..Len(research.codeExamples) |->
                                 PrimaryCodeExample(research.codeExamples[i])]))
           \o Hr
    ELSE <<>>

ResearchEmail(props) ==
  Tag("!DOCTYPE html") \o Tag("html") \o Tag("head") \o Tag("/head")
    \o Preview(props) \o Tag("body") \o Tag("table")
    \o Section(Heading(<<"AI Dev Tools Research">>)
                 \o Text(Escape(TopicName[props.topic]) \o TextBreak
                           \o <<WS, "bullet", WS>> \o TextBreak
                           \o FormattedDate(props.generatedAt)))
    \o Section(Heading(<<"Executive Summary">>)
                 \o Text(Escape(props.research.executiveSummary)))
    \o Hr
    \o Section(Heading(<<"Key Findings">>)
                 \o Flatten([i \in 1..Len(props.research.keyFindings) |->
                               PrimaryFinding(props.research.keyFindings[i])]))
    \o Hr
    \o CodeExamplesSection(props.research)
    \o Section(Heading(<<"Recommended Resources">>)
                 \o Flatten([i \in 1..Len(props.research.recommendedResources) |->
                               PrimaryResource(props.research.recommendedResources[i])]))
    \o Hr
    \o Section(Heading(Escape(<<"Sources", WS, AMP, WS, "References">>))
                 \o Tag("div")
                 \o Flatten([i \in 1..Len(props.research.sources) |->
                               PrimarySource(props.research.sources[i])])
                 \o Tag("/div"))
    \o Section(Text(<<"Generated by AI Research Automation", WS, "bullet", WS,
                      "Focus areas:", WS>> \o TextBreak \o <<"focusAreas">>))
    \o Tag("/table") \o Tag("/body") \o Tag("/html")

\* [html, primary, threw]: the primary template's markup, or the fallback
\* template's where rendering the primary template threw.
renderResearchEmailBugRethrow(props, primaryThrows) ==
  IF primaryThrows
    THEN [html |-> <<>>, primary |-> FALSE, threw |-> <<[name |-> "Error"]>>]
    ELSE [html |-> ResearchEmail(props), primary |-> TRUE, threw |-> <<>>]

renderResearchEmail(props, primaryThrows) ==
  IF primaryThrows
    THEN [html |-> createFallbackHtmlTemplate(props), primary |-> FALSE,
          threw |-> <<>>]
    ELSE [html |-> ResearchEmail(props), primary |-> TRUE, threw |-> <<>>]

\* The props sendResearchSummary renders a result with (lines 194-198).
RenderProps(researchResult) ==
  [topic       |-> researchResult.topic,
   research    |-> researchResult.structuredData,
   generatedAt |-> researchResult.generatedAt]

\* html.replace(/<[^>]*>/g, ''): the glyph at i is removed when a < stands
\* at or before it with no > in between and a > stands at or after it.
InTag(html, i) ==
  /\ \E p \in 1..i :
       html[p] = LT /\ \A k \in p..(i - 1) : html[k] # GT
  /\ \E r \in i..Len(html) : html[r] = GT

Removed == "removed"
IsKept(g) == g # Removed

StripTags(html) ==
  SelectSeq([i \in 1..Len(html) |->
               IF InTag(html, i) THEN Removed ELSE html[i]], IsKept)

\* .replace(/&nbsp;/g, ' ') ... .replace(/&quot;/g, '"')
DecodeGlyph(g) ==
  CASE g = "&nbsp;" -> WS
    [] g = "&amp;"  -> AMP
    [] g = "&lt;"   -> LT
    [] g = "&gt;"   -> GT
    [] g = "&quot;" -> QUOTE
    [] OTHER        -> g

DecodeEntities(text) == [i \in 1..Len(text) |-> DecodeGlyph(text[i])]

Space == {WS, NL}

\* .replace(/\n\s*\n/g, '\n\n'): in a run of white space, what stands
\* between its first and its last line break is removed.
BetweenBreaks(text, i) ==
  /\ text[i] \in Space
  /\ \E p \in 1..(i - 1) :
       text[p] = NL /\ \A k \in p..i : text[k] \in Space
  /\ \E q \in (i + 1)..Len(text) :
       text[q] = NL /\ \A k \in i..q : text[k] \in Space

CollapseBlankLines(text) ==
  SelectSeq([i \in 1..Len(text) |->
               IF BetweenBreaks(text, i) THEN Removed ELSE text[i]], IsKept)

\* String.prototype.trim() of a text that holds line breaks.
TrimLines(text) ==
  SelectSeq([i \in 1..Len(text) |->
               IF \/ \A k \in 1..i : text[k] \in Space
                  \/ \A k \in i..Len(text) : text[k] \in Space
                 THEN Removed ELSE text[i]], IsKept)

extractTextFromHtml(html) ==
  TrimLines(CollapseBlankLines(DecodeEntities(StripTags(html))))

\* String(generatedAt.getDay())
DayDigit == <<"0", "1", "2", "3", "4", "5", "6">>

ShortWeekday == <<"Sun", "Mon", "Tue", "Wed", "Thu", "Fri", "Sat">>

\* The subject counts the day from the date the result was generated at.
buildEmailConfig(config, researchResult, htmlContent) ==
  [from    |-> config.from,
   to      |-> config.recipients,
   subject |-> <<"Day", WS, DayDigit[researchResult.generatedAt + 1], WS,
                 "AI Dev Tools Update", WS, "-", WS>>
                 \o TopicName[researchResult.topic]
                 \o <<WS, "-", WS, ShortWeekday[researchResult.generatedAt + 1],
                      WS, "date">>,
   html    |-> htmlContent]

\* The EmailServiceConfig initializeServices builds from the environment.
EmailServiceConfig(e) ==
  [from |-> e.EMAIL_USER, recipients |-> e.EMAIL_RECIPIENTS]

\* The argument of transporter.sendMail in sendResearchSummary.
MailOptions(emailConfig) ==
  [from    |-> emailConfig.from,
   to      |-> emailConfig.to,
   subject |-> emailConfig.subject,
   html    |-> emailConfig.html,
   text    |-> extractTextFromHtml(emailConfig.html)]

\* A test message to every configured recipient.
TestEmailBugAllRecipients(config) ==
  [from    |-> config.from,
   to      |-> config.recipients,
   subject |-> <<"AI Research Automation - Test Email">>,
   html    |-> <<NL>> \o Tag("h2") \o <<"Email Configuration Test">>
                 \o Tag("/h2") \o <<NL>>
                 \o Tag("p") \o <<"From:", WS, config.from>> \o Tag("/p")
                 \o <<NL>>]

\* The message testEmailConfiguration sends (lines 351-366): to the first
\* recipient only.
TestEmail(config) ==
  [from    |-> config.from,
   to      |-> <<config.recipients[1]>>,
   subject |-> <<"AI Research Automation - Test Email">>,
   html    |-> <<NL>> \o Tag("h2") \o <<"Email Configuration Test">>
                 \o Tag("/h2") \o <<NL>>
                 \o Tag("p") \o <<"From:", WS, config.from>> \o Tag("/p")
                 \o <<NL>>]

-----------------------------------------------------------------------------
(* The inputs of a run: the environment, the day, how the model request    *)
(* and the transport calls settle.                                         *)

BaseEnv ==
  [ANTHROPIC_API_KEY |-> "key", EMAIL_USER |-> "me@example.com",
   EMAIL_PASS |-> "pass",
   EMAIL_RECIPIENTS |-> <<"a@example.com", "b@example.com">>,
   NODE_ENV |-> "", DAY |-> "", SCHEDULE |-> <<>>]

DayOverrides == {"", "mon", "FRI", "Wednesday", "sat"}
Schedules == {<<>>, <<"mon", "thu">>, <<"Monday", " Fri">>, <<"sat", "sun">>}

ValidEnvironments ==
  {[BaseEnv EXCEPT !.DAY = d, !.SCHEDULE = sc] :
     d \in DayOverrides, sc \in Schedules}

InvalidEnvironments ==
  { [BaseEnv EXCEPT !.ANTHROPIC_API_KEY = ""],
    [BaseEnv EXCEPT !.EMAIL_USER = "me"],
    [BaseEnv EXCEPT !.EMAIL_PASS = ""],
    [BaseEnv EXCEPT !.EMAIL_RECIPIENTS = <<>>],
    [BaseEnv EXCEPT !.NODE_ENV = "staging"] }

Environments == ValidEnvironments \cup InvalidEnvironments

Days == 0..6

Response(content) ==
  [type |-> "message", role |-> "assistant", content |-> content,
   usage |-> [input_tokens |-> 1, output_tokens |-> 2]]

FencedMinimal == Fenced(<<JSONTAG>>, RecMinimal)

Contents ==
  { <<TextBlock(FencedMinimal)>>,
    <<TextBlock(<<PROSE, WS, U1, WS>>)>>,
    <<TextBlock(<<PROSE>>), TextBlock(Fenced(<<>>, RecFull))>>,
    <<TextBlock(<<WS>>), TextBlock(RecFull)>>,
    <<TextBlock(<<WS>>)>>,
    <<TextBlock(<<>>), TextBlock(<<WS>>)>>,
    <<>>,
    <<ToolUseBlock, ToolResultBlock, TextBlock(FencedMinimal)>>,
    <<ToolUseBlock>> }

Headers(retryAfter) ==
  ("content-type" :> "application/json") @@ ("retry-after" :> retryAfter)
NoRetryHeaders == ("content-type" :> "application/json")

APIError(status, headers) ==
  [name |-> "APIError", status |-> status, headers |-> headers]

ModelSettlements ==
  {[kind |-> "resolved", response |-> Response(c)] : c \in Contents}
  \cup
  { [kind |-> "resolved",
     response |-> [type |-> "error", role |-> "assistant", content |-> <<>>,
                   usage |-> [input_tokens |-> 1, output_tokens |-> 2]]],
    [kind |-> "resolved",
     response |-> [type |-> "message", role |-> "assistant",
                   content |-> <<TextBlock(FencedMinimal)>>]] }
  \cup
  {[kind |-> "rejected", error |-> e] :
     e \in { APIError(Num(429), Headers("30")),
             APIError(Num(429), Headers("Wed, 21 Oct 2026 07:28:00 GMT")),
             APIError(Num(500), Headers("0")),
             APIError(Num(529), NoRetryHeaders),
             APIError(Undefined, NoRetryHeaders),
             [name |-> "Error"] }}

TransportCodes == {"EAUTH", "ECONNREFUSED", "ETIMEDOUT", "ESOCKET"}

TransportRejections ==
  {[kind |-> "rejected", error |-> [name |-> "Error", code |-> c]] :
     c \in TransportCodes}
  \cup {[kind |-> "rejected", error |-> [name |-> "Error"]]}

VerifySettlements == {[kind |-> "resolved"]} \cup TransportRejections

\* sendMail resolves when at least one recipient was accepted; every
\* recipient of the message is then in accepted or in rejected.
Deliveries(recipients) ==
  LET all == {recipients[i] : i \in 1..Len(recipients)}
      Split(acc) ==
        LET In(r) == r \in acc
            Out(r) == r \notin acc
        IN [accepted |-> SelectSeq(recipients, In),
            rejected |-> SelectSeq(recipients, Out)]
  IN {Split(acc) : acc \in (SUBSET all) \ {{}}}

SendSettlements(recipients) ==
  {[kind |-> "resolved", info |-> d] : d \in Deliveries(recipients)}
  \cup TransportRejections

\* A record whose Finding title quotes a tag and whose Resource name holds
\* an apostrophe.
RecMarkup ==
  RecordText(Str(<<"x">>),
             << <<LBRACE, "title:">> \o Str(<<"Using", WS, LT, "Suspense", GT>>)
                  \o <<COMMA, "description:">> \o Str(<<"d">>)
                  \o <<COMMA, "category:">> \o Str(<<"tool">>)
                  \o <<COMMA, "importance:">> \o Str(<<"low">>)
                  \o <<COMMA, "actionable:", "false", RBRACE>> >>,
             << <<LBRACE, "name:">> \o Str(<<"What", APOS, "s", WS, "new">>)
                  \o <<COMMA, "url:">> \o Str(<<U1>>)
                  \o <<COMMA, "description:">> \o Str(<<"d">>)
                  \o <<COMMA, "type:">> \o Str(<<"article">>)
                  \o <<RBRACE>> >>,
             <<>>, <<>>)

\* A reply in prose that cites a page with a path, and one that cites a
\* site in angle brackets: See <https://example.com> now
ProseWithUrl == <<PROSE, WS, U1, WS>>
ProseWithAutolink == <<PROSE, WS, LT, U4, GT, WS, PROSE>>

\* The records conductResearch hands on: parsed ones and degraded ones.
Records ==
  { parseStructuredResponse(Fenced(<<JSONTAG>>, RecFull)).value[1],
    parseStructuredResponse(RecMinimal).value[1],
    parseStructuredResponse(RecMarkup).value[1],
    createFallbackStructuredData(ProseWithUrl),
    createFallbackStructuredData(ProseWithAutolink) }

\* The ResearchResults sendResearchSummary is called with.
Results ==
  {[topic |-> t, structuredData |-> sd, htmlContent |-> <<>>,
    generatedAt |-> d, tokenUsage |-> [input |-> 1, output |-> 2]] :
     t \in 1..5, d \in Days, sd \in Records}

-----------------------------------------------------------------------------
(* The application: one invocation of runDailyResearch, one call of       *)
(* sendResearchSummary, or one invocation of main with --test-email, from  *)
(* its start to its end.  An action is the code that runs between two      *)
(* awaits of a library call.                                               *)

AppInit ==
  /\ rawContent = <<>>
  /\ chunks = 0
  /\ pc = "idle"
  /\ structuredData = <<>>
  /\ raised = FALSE
  /\ path = "none"
  /\ caught = "none"
  /\ NoRun

extraction == <<rawContent, structuredData, raised, path, caught>>

\* The error reaches the caller: the catch block of runDailyResearch ends
\* the process with status 1.
Fails(e) ==
  /\ error' = <<e>>
  /\ pc' = "done"
  /\ exitCode' = IF entry' = "runDailyResearch" THEN 1 ELSE exitCode

\* The function returns; the process of a run then ends with status 0.
Returns ==
  /\ error' = error
  /\ pc' = "done"
  /\ exitCode' = IF entry' = "runDailyResearch" THEN 0 ELSE exitCode

\* sendResearchSummary up to its first await: transporter.verify() is called
CallsVerify ==
  /\ trace' = Append(trace, "verify")
  /\ pc' = "awaitVerify"
  /\ UNCHANGED <<error, exitCode>>

\* runDailyResearch up to its first await (lines 557-590): environment
\* validation, service construction, topic selection and, inside
\* conductResearch, the call of messages.create.
runDailyResearch ==
  /\ pc = "idle"
  /\ \E e \in Environments, d \in Days :
       LET v == validateEnvironment(e)
           selected == getCurrentTopic(e.DAY, e.SCHEDULE, d)
       IN /\ entry' = "runDailyResearch"
          /\ env' = e
          /\ today' = d
          /\ IF v.threw
               THEN topic' = 0 /\ trace' = trace /\ Fails(v.error[1])
             ELSE IF selected = 0
               THEN topic' = 0 /\ trace' = trace /\ Returns
             ELSE /\ topic' = selected
                  /\ trace' = Append(trace, "request")
                  /\ pc' = "awaitModel"
                  /\ UNCHANGED <<error, exitCode>>
  /\ UNCHANGED <<chunks, extraction, reply, result, smtp, delivery>>

\* messages.create settled: the rest of conductResearch, then
\* runDailyResearch up to the first await of sendResearchSummary (lines
\* 590-598).
ModelSettles ==
  /\ pc = "awaitModel"
  /\ UNCHANGED <<chunks, entry, env, today, topic, smtp, delivery>>
  /\ \E settled \in ModelSettlements :
     \E c \in {conductResearch(settled, topic, today)} :
       LET called == c.extraction # <<>>
           stages == IF called THEN Append(trace, "extraction") ELSE trace
       IN /\ reply' = <<settled>>
          /\ rawContent' = c.rawContent
          /\ structuredData' = IF called THEN c.extraction[1].value ELSE <<>>
          /\ raised' = IF called THEN c.extraction[1].raised ELSE FALSE
          /\ path' = IF called THEN c.extraction[1].path ELSE "none"
          /\ caught' = IF called THEN c.extraction[1].caught ELSE "none"
          /\ result' = c.result
          /\ IF c.threw # <<>>
               THEN trace' = stages /\ Fails(c.threw[1])
             ELSE IF LogResearchCompleted(c.result[1]).threw # <<>>
               THEN /\ trace' = stages
                    /\ Fails(LogResearchCompleted(c.result[1]).threw[1])
             ELSE /\ trace' = Append(stages, "verify")
                  /\ pc' = "awaitVerify"
                  /\ UNCHANGED <<error, exitCode>>

\* A call of sendResearchSummary(deps, result) up to its first await.
sendResearchSummary ==
  /\ pc = "idle"
  /\ \E r \in Results :
       /\ entry' = "sendResearchSummary"
       /\ env' = BaseEnv
       /\ result' = <<r>>
       /\ today' = r.generatedAt
       /\ topic' = r.topic
  /\ CallsVerify
  /\ UNCHANGED <<chunks, extraction, reply, smtp, delivery>>

\* transporter.verify() settled: the rest of verifyConnection, then the
\* rendering, buildEmailConfig and the call of sendMail (lines 191-215).
VerifySettles ==
  /\ pc = "awaitVerify"
  /\ UNCHANGED <<chunks, extraction, entry, env, today, topic, reply, result,
                 returned>>
  /\ \E settled \in VerifySettlements :
       /\ smtp' = [smtp EXCEPT !.verify = <<settled>>]
       /\ IF verifyConnection(settled).threw # <<>>
            THEN /\ trace' = trace
                 /\ UNCHANGED <<rendered, mail>>
                 /\ Fails(CatchSendError(verifyConnection(settled).threw[1]))
            ELSE \E primaryThrows \in BOOLEAN :
                 \E r \in {renderResearchEmail(RenderProps(result[1]),
                                               primaryThrows)} :
                   /\ rendered' = <<r>>
                   /\ IF r.threw # <<>>
                        THEN /\ trace' = Append(trace, "render")
                             /\ mail' = mail
                             /\ Fails(CatchSendError(r.threw[1]))
                        ELSE /\ trace' = trace \o <<"render", "sendMail">>
                             /\ mail' = <<MailOptions(buildEmailConfig(
                                             EmailServiceConfig(env),
                                             result[1], r.html))>>
                             /\ pc' = "awaitSend"
                             /\ UNCHANGED <<error, exitCode>>

\* sendMail settled: the rest of sendResearchSummary (lines 217-273) and,
\* in a run, of runDailyResearch (lines 600-635).
SendMailSettles ==
  /\ pc = "awaitSend"
  /\ UNCHANGED <<chunks, extraction, entry, env, today, topic, reply, result,
                 trace, delivery>>
  /\ \E settled \in SendSettlements(env.EMAIL_RECIPIENTS) :
       /\ smtp' = [smtp EXCEPT !.sendMail = <<settled>>]
       /\ IF settled.kind = "rejected"
            THEN Fails(CatchSendError(settled.error))
          ELSE IF DeliveryCheck(settled.info).threw # <<>>
            THEN Fails(CatchSendError(DeliveryCheck(settled.info).threw[1]))
          ELSE Returns

\* main with --test-email (research-email.tsx 645-664) up to the first
\* await of testEmailConfiguration; an invalid environment ends it in the
\* catch block of main.
testEmailConfiguration ==
  /\ pc = "idle"
  /\ \E e \in Environments :
       /\ entry' = "testEmailConfiguration"
       /\ env' = e
       /\ IF validateEnvironment(e).threw
            THEN /\ error' = <<validateEnvironment(e).error[1]>>
                 /\ exitCode' = 1
                 /\ trace' = trace
                 /\ pc' = "done"
            ELSE /\ trace' = Append(trace, "verify")
                 /\ pc' = "awaitTestVerify"
                 /\ UNCHANGED <<error, exitCode>>
  /\ UNCHANGED <<chunks, extraction, today, topic, reply, result, smtp,
                 delivery>>

\* transporter.verify() settled in testEmailConfiguration: its catch block
\* returns false, or the test message goes to sendMail.
TestVerifySettles ==
  /\ pc = "awaitTestVerify"
  /\ UNCHANGED <<chunks, extraction, entry, env, today, topic, reply, result,
                 error, rendered>>
  /\ \E settled \in VerifySettlements :
       /\ smtp' = [smtp EXCEPT !.verify = <<settled>>]
       /\ IF verifyConnection(settled).threw # <<>>
            THEN /\ returned' = <<FALSE>>
                 /\ exitCode' = 1
                 /\ pc' = "done"
                 /\ UNCHANGED <<trace, mail>>
            ELSE /\ mail' = <<TestEmail(EmailServiceConfig(env))>>
                 /\ trace' = Append(trace, "sendMail")
                 /\ pc' = "awaitTestSend"
                 /\ UNCHANGED <<returned, exitCode>>

\* sendMail settled in testEmailConfiguration: true when it resolved, false
\* from the catch block; main exits with 0 or 1.
TestSendSettles ==
  /\ pc = "awaitTestSend"
  /\ UNCHANGED <<chunks, extraction, entry, env, today, topic, reply, result,
                 trace, error, rendered, mail>>
  /\ \E settled \in SendSettlements(mail[1].to) :
       /\ smtp' = [smtp EXCEPT !.sendMail = <<settled>>]
       /\ returned' = <<settled.kind = "resolved">>
       /\ exitCode' = IF settled.kind = "resolved" THEN 0 ELSE 1
       /\ pc' = "done"

AppNext ==
  \/ runDailyResearch
  \/ ModelSettles
  \/ sendResearchSummary
  \/ VerifySettles
  \/ testEmailConfiguration
  \/ TestVerifySettles
  \/ TestSendSettles
  \/ SendMailSettles

AppSpec == AppInit /\ [][AppNext]_vars

-----------------------------------------------------------------------------
(* Properties of the application *)

InRun == entry = "runDailyResearch"
InSend == entry = "sendResearchSummary"
Ended == pc = "done" /\ entry # "none"

\* How often, and where first, an event is in the trace (0: nowhere).
Count(event) == Cardinality({i \in 1..Len(trace) : trace[i] = event})
First(event) ==
  IF Count(event) = 0 THEN 0
  ELSE MinOf({i \in 1..Len(trace) : trace[i] = event})

Resolved(settlement) == settlement # <<>> /\ settlement[1].kind = "resolved"
Rejected(settlement) == settlement # <<>> /\ settlement[1].kind = "rejected"

\* A text of white space only (the empty text included).
Blank(text) == \A i \in 1..Len(text) : text[i] = WS

TextSegments(content) ==
  {i \in 1..Len(content) : content[i].type = "text"}
ToolSegments(content) ==
  {i \in 1..Len(content) : content[i].type # "text"}

\* A response is well formed apart, possibly, from its tool segments.
WellFormed(response) ==
  /\ "usage" \in DOMAIN response
  /\ response.type = "message"
  /\ response.role = "assistant"

\* No transport call of the run has failed, no recipient was rejected.
TransportFine ==
  /\ ~Rejected(smtp.verify)
  /\ ~Rejected(smtp.sendMail)
  /\ Resolved(smtp.sendMail) => smtp.sendMail[1].info.rejected = <<>>

\* The environment is valid, a topic is selected and the model returned a
\* valid reply with text in it.
GoodReply ==
  /\ Resolved(reply)
  /\ ClaudeResponseSchemaOk(reply[1].response)
  /\ \E i \in TextSegments(reply[1].response.content) :
       ~Blank(reply[1].response.content[i].text)

\* C11: a run with a valid environment, a selected topic, a valid reply with
\* text in it and a transport that fails nowhere goes through research,
\* extraction, rendering and sending in this order, sends exactly one email
\* and does not end with a failure status.
C11_HappyRunSendsOneEmail ==
  (InRun /\ Ended /\ EnvSchemaOk(env) /\ topic # 0 /\ GoodReply
     /\ TransportFine)
  => /\ exitCode = 0
     /\ Count("sendMail") = 1
     /\ 0 < First("request")
     /\ First("request") < First("extraction")
     /\ First("extraction") < First("render")
     /\ First("render") < First("sendMail")


\* C12: a reply whose content has tool-invocation segments next to text
\* segments passes response validation, and extraction runs on the joined
\* text of its text segments only.
C12_ToolSegmentsAccepted ==
  (InRun /\ Ended /\ Resolved(reply) /\ WellFormed(reply[1].response)
     /\ ToolSegments(reply[1].response.content) # {}
     /\ \E i \in TextSegments(reply[1].response.content) :
          ~Blank(reply[1].response.content[i].text))
  => /\ Count("extraction") = 1
     /\ rawContent = RawContentOf(reply[1].response.content)

\* C13: conductResearch calls messages.create exactly once and never again;
\* when the call fails, the failure reaches the caller as a
\* ResearchAutomationError and nothing is returned.
C13_SingleRequest ==
  /\ Count("request") <= 1
  /\ (InRun /\ topic # 0) => Count("request") = 1
  /\ Rejected(reply)
       => /\ pc = "done"
          /\ result = <<>>
          /\ error # <<>>
          /\ error[1].name = "ResearchAutomationError"
          /\ error[1].code \in {"CLAUDE_API_ERROR", "UNEXPECTED_ERROR"}
          /\ exitCode = 1

C13_Witness ==
  /\ InRun /\ Ended /\ Rejected(reply)
  /\ reply[1].error.name = "APIError"
  /\ trace = <<"request">>


\* The reply failed ClaudeResponseSchema.parse.
InvalidReply == Resolved(reply) /\ ~ClaudeResponseSchemaOk(reply[1].response)

\* C14 (as stated): a reply that fails structural validation is propagated
\* as an error whose code is neither the code of a failed request nor the
\* code of an unexpected error.
C14_DedicatedInvalidReplyKind ==
  (InRun /\ Ended /\ InvalidReply)
  => /\ error # <<>>
     /\ error[1].name = "ResearchAutomationError"
     /\ error[1].code \notin {"CLAUDE_API_ERROR", "UNEXPECTED_ERROR"}

\* C14 (amended): a reply that fails structural validation is propagated as
\* a ResearchAutomationError with the code of an unexpected error,
\* UNEXPECTED_ERROR, without status and retry-after.
C14_InvalidReplyIsUnexpected ==
  (InRun /\ Ended /\ InvalidReply)
  => /\ error = <<ResearchAutomationError("UNEXPECTED_ERROR",
                                        Undefined, Undefined)>>
     /\ result = <<>>
     /\ Count("extraction") = 0
     /\ exitCode = 1

C14_Witness ==
  /\ InRun /\ Ended /\ InvalidReply
  /\ "usage" \notin DOMAIN reply[1].response
  /\ error # <<>>

\* C15: a validated reply without a text segment that holds something other
\* than white space makes conductResearch throw a ResearchAutomationError
\* with code EMPTY_RESPONSE; parseStructuredResponse is not called and no
\* ResearchResult is returned.
C15_EmptyReply ==
  (InRun /\ Ended /\ Resolved(reply)
     /\ ClaudeResponseSchemaOk(reply[1].response)
     /\ \A i \in TextSegments(reply[1].response.content) :
          Blank(reply[1].response.content[i].text))
  => /\ error = <<ResearchAutomationError("EMPTY_RESPONSE",
                                        Undefined, Undefined)>>
     /\ Count("extraction") = 0
     /\ path = "none"
     /\ result = <<>>

C15_Witness ==
  /\ InRun /\ Ended /\ Resolved(reply)
  /\ ClaudeResponseSchemaOk(reply[1].response)
  /\ reply[1].response.content = <<TextBlock(<<>>), TextBlock(<<WS>>)>>
  /\ error # <<>>

\* C16: an API error of the model client makes conductResearch throw a
\* ResearchAutomationError with code CLAUDE_API_ERROR that carries the
\* status of the error and, as retryAfter, the number its retry-after header
\* converts to (NaN for a header that is not a number of seconds), undefined
\* without the header.
C16_ApiErrorCarried ==
  (InRun /\ Ended /\ Rejected(reply) /\ reply[1].error.name = "APIError")
  => /\ error # <<>>
     /\ error[1].name = "ResearchAutomationError"
     /\ error[1].code = "CLAUDE_API_ERROR"
     /\ error[1].statusCode = reply[1].error.status
     /\ LET headers == reply[1].error.headers
        IN IF "retry-after" \notin DOMAIN headers
             THEN error[1].retryAfter = Undefined
           ELSE IF headers["retry-after"] = "30"
             THEN error[1].retryAfter = Num(30)
           ELSE IF headers["retry-after"] = "0"
             THEN error[1].retryAfter = Num(0)
           ELSE error[1].retryAfter = NaN

C16_Witness ==
  /\ InRun /\ Ended /\ Rejected(reply)
  /\ reply[1].error.name = "APIError"
  /\ reply[1].error.status = Num(429)
  /\ "retry-after" \in DOMAIN reply[1].error.headers
  /\ error # <<>>
  /\ error[1].retryAfter = Num(30)


\* C17: a run whose environment fails validation raises ConfigurationError
\* and ends with status 1; it makes no model request and no transport call.
C17_InvalidEnvironment ==
  (InRun /\ ~EnvSchemaOk(env))
  => /\ pc = "done"
     /\ error = <<ConfigurationError>>
     /\ exitCode = 1
     /\ trace = <<>>
     /\ reply = <<>>
     /\ smtp.verify = <<>> /\ smtp.sendMail = <<>>

C17_Witness ==
  /\ InRun /\ Ended
  /\ env.EMAIL_USER \notin EmailAddresses
  /\ exitCode = 1

\* C18: sendResearchSummary calls the transport's verify before sendMail,
\* calls sendMail at most once, and does not call it after a failed verify.
C18_VerifyBeforeSend ==
  /\ Count("sendMail") <= 1
  /\ \A i \in 1..Len(trace) :
       trace[i] = "sendMail" => \E j \in 1..(i - 1) : trace[j] = "verify"
  /\ Count("sendMail") = 1 => Resolved(smtp.verify)
  /\ Rejected(smtp.verify) => pc = "done" /\ Count("sendMail") = 0

C18_Witness ==
  /\ InSend /\ Ended
  /\ Rejected(smtp.verify)
  /\ trace = <<"verify">>

\* The error kind the catch block of sendResearchSummary gives a transport
\* error code.
KindOfCode(code) ==
  IF code = "EAUTH" THEN "EMAIL_AUTH_ERROR"
  ELSE IF code = "ECONNREFUSED" THEN "EMAIL_CONNECTION_ERROR"
  ELSE IF code = "ETIMEDOUT" THEN "EMAIL_TIMEOUT_ERROR"
  ELSE "EMAIL_SEND_ERROR"

Coded(settlement) == Rejected(settlement) /\ "code" \in DOMAIN settlement[1].error

\* sendResearchSummary ended, called directly or by a run.
SendEnded == Ended /\ entry \in {"runDailyResearch", "sendResearchSummary"}

\* C19 (as stated): a coded transport failure, in the verify step or in the
\* send step, is reported with the error kind of its code.
C19_BothStepsClassified ==
  /\ (SendEnded /\ Coded(smtp.verify))
       => error # <<>> /\ error[1].code = KindOfCode(smtp.verify[1].error.code)
  /\ (SendEnded /\ Coded(smtp.sendMail))
       => error # <<>> /\ error[1].code = KindOfCode(smtp.sendMail[1].error.code)

\* C19 (amended): a coded transport failure in the send step is reported
\* with the error kind of its code; a transport failure in the verify step
\* is reported as EMAIL_CONNECTION_VERIFICATION_ERROR whatever its code.
C19_SendStepClassified ==
  /\ (SendEnded /\ Rejected(smtp.verify))
       => error = <<ResearchAutomationError(
                      "EMAIL_CONNECTION_VERIFICATION_ERROR",
                      Undefined, Undefined)>>
  /\ (SendEnded /\ Coded(smtp.sendMail))
       => error = <<ResearchAutomationError(
                      KindOfCode(smtp.sendMail[1].error.code),
                      Undefined, Undefined)>>

C19_Witness ==
  /\ InSend /\ Ended
  /\ Coded(smtp.sendMail)
  /\ smtp.sendMail[1].error.code = "ETIMEDOUT"
  /\ error # <<>>

\* C20: sendResearchSummary completes without error only if every
\* configured recipient was accepted; when the result of sendMail lists a
\* rejected recipient it throws EMAIL_DELIVERY_PARTIAL_FAILURE.
C20_AllAccepted ==
  /\ (InSend /\ Ended /\ error = <<>>)
       => /\ Resolved(smtp.sendMail)
          /\ smtp.sendMail[1].info.accepted = env.EMAIL_RECIPIENTS
  /\ (Ended /\ Resolved(smtp.sendMail)
        /\ smtp.sendMail[1].info.rejected # <<>>)
       => error = <<ResearchAutomationError(
                      "EMAIL_DELIVERY_PARTIAL_FAILURE", Undefined, Undefined)>>

C20_Witness ==
  /\ InSend /\ Ended
  /\ Resolved(smtp.sendMail)
  /\ Len(smtp.sendMail[1].info.accepted) = 1
  /\ Len(smtp.sendMail[1].info.rejected) = 1
  /\ error # <<>>

\* The renderer came to a result for the props of the current result.
Rendered == rendered # <<>>
PrimaryThrew == Rendered /\ ~rendered[1].primary
Props == RenderProps(result[1])

\* C21: when rendering the primary template throws, renderResearchEmail
\* throws nothing: it returns the markup of the fallback template for the
\* same props, and sendMail is called with that markup.
C21_FallbackOnThrow ==
  PrimaryThrew
    => /\ rendered[1].threw = <<>>
       /\ rendered[1].html = createFallbackHtmlTemplate(Props)
       /\ Count("sendMail") = 1
       /\ mail # <<>>
       /\ mail[1].html = createFallbackHtmlTemplate(Props)

C21_Witness ==
  /\ InSend /\ Ended /\ PrimaryThrew
  /\ Resolved(smtp.sendMail)
  /\ error = <<>>

\* The message sendResearchSummary handed to sendMail.
Sent == mail # <<>> /\ InSend

\* The link target that opens at p, as a mail client reads it: the
\* attribute's value up to the closing quote, entities decoded.
HrefAt(html, p) ==
  DecodeEntities(
    SubSeq(html, p + 2,
           MinOf({k \in (p + 2)..Len(html) : html[k] = QUOTE}) - 1))

LinkTargetsValid(html) ==
  \A p \in 1..Len(html) : html[p] = "a href=" => IsValidUrl(HrefAt(html, p))

\* C22: every link target in the markup sent, of the primary and of the
\* fallback template, for parsed and for degraded records, is a valid URL.
C22_LinkTargetsValidated == Sent => LinkTargetsValid(mail[1].html)

\* C23: the plain text of the message, obtained from its markup by
\* extractTextFromHtml, holds every Finding title and every Resource name
\* of the record as a run of consecutive glyphs, whichever template
\* rendered the markup.
C23_TextKeepsTitles ==
  Sent =>
    /\ \A i \in 1..Len(result[1].structuredData.keyFindings) :
         OccursIn(result[1].structuredData.keyFindings[i].title,
                  mail[1].text)
    /\ \A j \in 1..Len(result[1].structuredData.recommendedResources) :
         OccursIn(result[1].structuredData.recommendedResources[j].name,
                  mail[1].text)

AllListsEmpty ==
  /\ result[1].structuredData.keyFindings = <<>>
  /\ result[1].structuredData.codeExamples = <<>>
  /\ result[1].structuredData.recommendedResources = <<>>
  /\ result[1].structuredData.sources = <<>>

IsInk(g) == g \notin Space

\* The text of the message without its white space.
Ink == SelectSeq(mail[1].text, IsInk)

\* The headers of the Findings, Resources and Sources sections follow one
\* another with nothing in between, and nothing but the footer, if any,
\* comes after them.
ThreeBareHeaders ==
  IF rendered[1].primary
    THEN OccursIn(<<"Key Findings", "Recommended Resources", "Sources", AMP,
                    "References", "Generated by AI Research Automation">>, Ink)
    ELSE /\ OccursIn(<<"Key Findings", "Recommended Resources", "Sources">>,
                     Ink)
         /\ Ink[Len(Ink)] = "Sources"

HasCodeExamplesHeader == OccursIn(<<"Code Examples">>, mail[1].html)

\* C24 as stated: a record whose four lists are empty is rendered without
\* an exception, and the markup holds the header of each of the four
\* sections with no items under it.
C24_FourBareHeaders ==
  (Sent /\ AllListsEmpty)
    => /\ rendered[1].threw = <<>>
       /\ ThreeBareHeaders
       /\ HasCodeExamplesHeader

\* C24, amended: a record whose four lists are empty is rendered without an
\* exception; the markup holds the headers of the Findings, Resources and
\* Sources sections with no items under them, and no header for the code
\* examples.
C24_ThreeBareHeaders ==
  (Rendered /\ AllListsEmpty)
    => /\ rendered[1].threw = <<>>
       /\ Sent
       /\ ThreeBareHeaders
       /\ ~HasCodeExamplesHeader

C24_Witness ==
  /\ Sent /\ AllListsEmpty /\ Ended
  /\ ~rendered[1].primary
  /\ error = <<>>

\* The environment of the run passed validateEnvironment.
EnvAccepted == InRun /\ ~validateEnvironment(env).threw

\* The weekday number a word names, in any letter case; 0 for any other
\* word.
WeekdayNamed(word) ==
  CASE word \in {"mon", "MON", "Mon", "monday", "Monday", "MONDAY"} -> 1
    [] word \in {"tue", "TUE", "Tue", "tuesday", "Tuesday", "TUESDAY"} -> 2
    [] word \in {"wed", "WED", "Wed", "wednesday", "Wednesday", "WEDNESDAY"} -> 3
    [] word \in {"thu", "THU", "Thu", "thursday", "Thursday", "THURSDAY"} -> 4
    [] word \in {"fri", "FRI", "Fri", "friday", "Friday", "FRIDAY"} -> 5
    [] OTHER -> 0

\* C25: with a day override that names a weekday, Monday to Friday, by
\* abbreviation or in full and in any letter case, the topic selected is
\* the one of that weekday, whatever the current day and SCHEDULE are.
C25_OverrideSelectsTopic ==
  (EnvAccepted /\ WeekdayNamed(env.DAY) # 0)
    => topic = WeekdayNamed(env.DAY)

C25_Witness ==
  /\ EnvAccepted
  /\ env.DAY = "FRI"
  /\ today = 6
  /\ env.SCHEDULE = <<"mon", "thu">>
  /\ topic = 5

NoOverride == EnvAccepted /\ env.DAY = ""

\* An entry of SCHEDULE without the blanks around it.
Unpadded(word) == IF word = " Fri" THEN "Fri" ELSE word

\* Today's weekday is named by an entry of SCHEDULE.
TodayListed ==
  \E i \in 1..Len(env.SCHEDULE) :
    /\ WeekdayNamed(Unpadded(env.SCHEDULE[i])) # 0
    /\ WeekdayNamed(Unpadded(env.SCHEDULE[i])) = today

\* C26: without a day override a topic is selected only on a day that
\* SCHEDULE lists, by abbreviation or in full, in any letter case; with
\* SCHEDULE unset a topic is selected exactly on Monday to Friday; the topic
\* selected is the one of today's weekday.
C26_ScheduledDaysOnly ==
  NoOverride
    => /\ topic # 0 => topic = today
       /\ env.SCHEDULE = <<>> => (topic # 0 <=> today \in 1..5)
       /\ (env.SCHEDULE # <<>> /\ topic # 0) => TodayListed

C26_Witness ==
  /\ NoOverride
  /\ env.SCHEDULE = <<"Monday", " Fri">>
  /\ today = 5
  /\ topic = 5

InTest == entry = "testEmailConfiguration"

\* C27: testEmailConfiguration throws nothing; it returns true exactly
\* when transporter.verify() and the sendMail of the test message both
\* resolved, false otherwise; the test message goes to the first
\* configured recipient and to nobody else.
C27_TestReturnsBoolean ==
  /\ (InTest /\ Ended /\ ~validateEnvironment(env).threw)
       => /\ error = <<>>
          /\ returned \in {<<TRUE>>, <<FALSE>>}
          /\ returned = <<TRUE>>
               <=> (Resolved(smtp.verify) /\ Resolved(smtp.sendMail))
  /\ (InTest /\ mail # <<>>) => mail[1].to = <<env.EMAIL_RECIPIENTS[1]>>

C27_Witness ==
  /\ InTest /\ Ended
  /\ Len(env.EMAIL_RECIPIENTS) = 2
  /\ mail # <<>>
  /\ returned = <<TRUE>>
  /\ exitCode = 0

\* The override names no weekday, or there is none and today is not a
\* scheduled day.
NotSelected ==
  IF env.DAY # "" THEN WeekdayNamed(env.DAY) = 0
  ELSE IF env.SCHEDULE = <<>> THEN today \notin 1..5
  ELSE ~TodayListed

NothingCalled ==
  /\ trace = <<>>
  /\ reply = <<>>
  /\ smtp = [verify |-> <<>>, sendMail |-> <<>>]
  /\ mail = <<>>

\* C28: a run in which no topic is selected, because today is not
\* scheduled or because the day override names no weekday, makes no model
\* request, no SMTP verify and no send, and ends without a failure status.
C28_NoTopicNoWork ==
  (EnvAccepted /\ (NotSelected \/ topic = 0))
    => /\ topic = 0
       /\ pc = "done"
       /\ NothingCalled
       /\ error = <<>>
       /\ exitCode = 0

C28_Witness ==
  /\ EnvAccepted /\ Ended
  /\ env.DAY = "sat"
  /\ today = 2
  /\ topic = 0
  /\ exitCode = 0

C30_SubjectDayIsTopicDay ==
  Sent => /\ SubSeq(mail[1].subject, 1, 2) = <<"Day", WS>>
          /\ mail[1].subject[3] = DayDigit[result[1].topic + 1]

=============================================================================
